---- MODULE Spec2Model ----
(***************************************************************************)
(* Model of github.com/jahvon/expression: the Template wrapper around      *)
(* text/template and its action rewriter (preProcessExpressions).          *)
(*                                                                         *)
(* The sources hold two implementations of Template:                       *)
(*   "tpl" : src/template.go          (classification inlined in a switch) *)
(*   "alt" : src/unnamed/part_001     (processAction / isGoSyntax)         *)
(* Both are modelled; the variable `variant` says which one is running.    *)
(*                                                                         *)
(* Go strings are sequences of one-character strings, so that Index,       *)
(* HasPrefix, TrimSpace, Split ... are computed as the Go library does.    *)
(***************************************************************************)
EXTENDS Integers, Sequences, FiniteSets, TLC

VARIABLES
    variant,       \* which implementation of Template is running
    text,          \* Template.text
    tmpl,          \* Template.tmpl: Nil or the parsed (rewritten) text
    exprCache,     \* Template.exprCache: the expression strings compiled
    templateVars,  \* Template.templateVars (src/unnamed/part_001 only): name to value
    sink,          \* what Execute wrote to its io.Writer, one entry per write
    evals,         \* number of evalExpr / evalExprBool calls made so far
    lastOp,        \* the last call made on the Template and
    lastErr,       \*   the error it returned ("" for nil)
    file,          \* the path handed to ParseFile, when it is the last call made
    input,         \* the text handed to preProcessExpressions
    remaining,     \* preProcessExpressions: local `remaining`
    result,        \* preProcessExpressions: local `result`
    contextDepth,  \* preProcessExpressions: local `contextDepth`
    pc,            \* position of the scan: "scan", "done" or "idle"
    last,          \* the loop iteration just made (history)
    chunks,        \* what each iteration wrote to result, in order (history)
    host,          \* runtime.GOOS and runtime.GOARCH of the build
    envMap,        \* the caller's environment map (a Go map, shared by reference)
    envGiven,      \* envMap as the caller handed it to BuildData (history)
    data,          \* the Data Context the caller holds (NoData before BuildData)
    call,          \* the last call made on the facade of expr.go and its results
    tpls,          \* the Template objects that share `data`, one per goroutine
    gor            \* what each goroutine is doing on its Template

vars == <<variant, text, tmpl, exprCache, templateVars, sink, evals, lastOp, lastErr, file,
          input, remaining, result, contextDepth, pc, last, chunks,
          host, envMap, envGiven, data, call, tpls, gor>>

tmplVars == <<text, tmpl, exprCache, templateVars, sink, evals, lastOp, lastErr, file>>
scanVars == <<input, remaining, result, contextDepth, pc, last, chunks>>
facadeVars == <<host, envMap, envGiven, data, call>>
sharedVars == <<tpls, gor>>

-----------------------------------------------------------------------------
(* Bounds of the model *)

MaxPieces == 3     \* pieces in a generated action fragment
MaxDepth == 1      \* range/with blocks opened before a generated action
MaxSegs == 4       \* pieces in a generated delimiter/marker text
MaxExec == 2       \* Execute calls on one Template
MaxNum == 12       \* the largest number among the evaluated values
MaxKv == 4         \* arguments of BuildData after the environment map
MaxEvals == 3      \* expression evaluations made by one goroutine
MaxNest == 2       \* blocks nested in one another in a generated template
MaxActs == 2       \* actions of a template that is executed on a followed context

-----------------------------------------------------------------------------
(* Text literals *)

LeftDelim == <<"{", "{">>
RightDelim == <<"}", "}">>
Dash == <<"-">>
Space == <<" ">>
Dot == <<".">>
Dollar == <<"$">>
Assign == <<":", "=">>
\* the raw-string quote of Go (the atom "bq" stands for the backquote character)
Backtick == <<"bq">>
DQuote == <<"\"">>
KwIf == <<"i", "f", " ">>
KwElseIf == <<"e", "l", "s", "e", " ", "i", "f", " ">>
KwWith == <<"w", "i", "t", "h", " ">>
KwRange == <<"r", "a", "n", "g", "e", " ">>
KwEnd == <<"e", "n", "d">>
KwElse == <<"e", "l", "s", "e">>
CallExpr == <<"e", "x", "p", "r", " ", "bq">>
CallExprBool == <<"e", "x", "p", "r", "B", "o", "o", "l", " ", "bq">>
AssignSp == <<" ", ":", "=", " ">>
SetVarOpen == <<"(", "s", "e", "t", "V", "a", "r", " ">>
ParenOpen == <<"(">>
ParenClose == <<")">>
IdX == <<"x">>
\* an identifier that no Data Context of the model binds
IdU == <<"u">>
PlusPlus == <<"+", "+">>
\* the key of the Data Context that names the operating system
KeyOs == <<"o", "s">>

-----------------------------------------------------------------------------
(* The parts of the state that a specification does not run *)

\* a nil Data
NoData == [bound |-> FALSE]

\* no command run yet by the shell helper
NoShell ==
    [cmd |-> [parses |-> TRUE, stdout |-> <<>>, stderr |-> <<>>, status |-> 0],
     cause |-> "", status |-> 0, output |-> <<>>]

\* no call made yet on the facade
NoCall ==
    [op |-> "none", ex |-> <<>>, kv |-> <<>>, out |-> [goType |-> "nil", val |-> <<>>],
     b |-> FALSE, str |-> <<>>, err |-> "", typ |-> "", sh |-> NoShell]

NoHost == [os |-> <<>>, arch |-> <<>>, home |-> <<>>]

facadeIdle ==
    /\ host = NoHost
    /\ envMap = <<>>
    /\ envGiven = <<>>
    /\ data = NoData
    /\ call = NoCall

sharedIdle ==
    /\ tpls = <<>>
    /\ gor = <<>>

-----------------------------------------------------------------------------
(* The Go strings package, on sequences of characters *)

\* s[i:j] of Go (0-based, j exclusive)
Slice(s, i, j) == SubSeq(s, i + 1, j)

HasPrefix(s, p) == Len(p) <= Len(s) /\ SubSeq(s, 1, Len(p)) = p

HasSuffix(s, p) == Len(p) <= Len(s) /\ SubSeq(s, Len(s) - Len(p) + 1, Len(s)) = p

TrimPrefix(s, p) == IF HasPrefix(s, p) THEN SubSeq(s, Len(p) + 1, Len(s)) ELSE s

TrimSuffix(s, p) == IF HasSuffix(s, p) THEN SubSeq(s, 1, Len(s) - Len(p)) ELSE s

\* the 0-based offset of the first occurrence of sub in s, or -1
Index(s, sub) ==
    LET hits == {i \in 1..(Len(s) - Len(sub) + 1) : SubSeq(s, i, i + Len(sub) - 1) = sub}
    IN  IF hits = {} THEN -1
        ELSE (CHOOSE i \in hits : \A j \in hits : i <= j) - 1

Contains(s, sub) == Index(s, sub) # -1

IsSpace(c) == c \in {" ", "\n", "\t"}

TrimSpace(s) ==
    LET keep == {i \in 1..Len(s) : ~IsSpace(s[i])}
    IN  IF keep = {} THEN <<>>
        ELSE SubSeq(s, CHOOSE i \in keep : \A j \in keep : i <= j,
                       CHOOSE i \in keep : \A j \in keep : i >= j)

RECURSIVE Split(_, _)
Split(s, sep) ==
    LET i == Index(s, sep)
    IN  IF i = -1 THEN <<s>>
        ELSE <<Slice(s, 0, i)>> \o Split(Slice(s, i + Len(sep), Len(s)), sep)

\* fmt's %q of a string that needs no escaping
Quote(s) == DQuote \o s \o DQuote

-----------------------------------------------------------------------------
(* The rewriting of one action *)

\* isGoSyntax looking for the $ at the start only
isGoSyntaxPrefixOnly(expression, depth) ==
    LET e == TrimSpace(expression)
    IN  \/ HasPrefix(e, Dollar)
        \/ depth > 0 /\ (HasPrefix(e, Dot) \/ e = Dot)

\* part_001: Template.isGoSyntax
isGoSyntax(expression, depth) ==
    LET e == TrimSpace(expression)
    IN  \/ Contains(e, Dollar)
        \/ depth > 0 /\ (HasPrefix(e, Dot) \/ e = Dot)

\* part_001: Template.processAction
processAction(action0, depth) ==
    LET action == TrimSpace(action0)
    IN  IF HasPrefix(action, KwIf) THEN
            LET condition == TrimSpace(TrimPrefix(action, KwIf))
            IN  IF isGoSyntax(condition, depth)
                THEN KwIf \o condition
                ELSE KwIf \o CallExprBool \o condition \o Backtick
        ELSE IF HasPrefix(action, KwElseIf) THEN
            LET condition == TrimSpace(TrimPrefix(action, KwElseIf))
            IN  IF isGoSyntax(condition, depth)
                THEN KwElseIf \o condition
                ELSE KwElseIf \o CallExprBool \o condition \o Backtick
        ELSE IF HasPrefix(action, KwWith) THEN
            LET value == TrimSpace(TrimPrefix(action, KwWith))
            IN  IF isGoSyntax(value, depth)
                THEN KwWith \o value
                ELSE KwWith \o CallExpr \o value \o Backtick
        ELSE IF HasPrefix(action, KwRange) THEN
            LET value == TrimSpace(TrimPrefix(action, KwRange))
                parts == Split(value, Assign)
            IN  IF Contains(value, Assign) /\ Len(parts) = 2 THEN
                    LET rvars == TrimSpace(parts[1])
                        e == TrimSpace(parts[2])
                    IN  IF isGoSyntax(e, depth)
                        THEN KwRange \o rvars \o AssignSp \o e
                        ELSE KwRange \o rvars \o AssignSp \o CallExpr \o e \o Backtick
                ELSE IF isGoSyntax(value, depth)
                THEN KwRange \o value
                ELSE KwRange \o CallExpr \o value \o Backtick
        ELSE IF Contains(action, Assign) /\ Len(Split(action, Assign)) = 2 THEN
            LET parts == Split(action, Assign)
                varName == TrimSpace(parts[1])
                e == TrimSpace(parts[2])
                head == varName \o AssignSp \o SetVarOpen
                            \o Quote(TrimPrefix(varName, Dollar)) \o Space
            IN  IF isGoSyntax(e, depth)
                THEN head \o e \o ParenClose
                ELSE head \o ParenOpen \o CallExpr \o e \o Backtick
                          \o ParenClose \o ParenClose
        ELSE IF action = KwEnd \/ action = KwElse THEN action
        ELSE IF isGoSyntax(action, depth) THEN action
        ELSE CallExpr \o action \o Backtick

\* part_001: the update of contextDepth after processAction
depthAfterAlt(action, depth) ==
    IF HasPrefix(action, KwRange) \/ HasPrefix(action, KwWith) THEN depth + 1
    ELSE IF action = KwEnd THEN (IF depth > 0 THEN depth - 1 ELSE depth)
    ELSE depth

\* template.go: the switch of preProcessExpressions, what it writes
switchAction(action, depth) ==
    IF HasPrefix(action, KwIf) THEN
        LET condition == TrimSpace(TrimPrefix(action, KwIf))
        IN  IF (depth > 0 /\ HasPrefix(condition, Dot)) \/ Contains(condition, Dollar)
            THEN KwIf \o condition
            ELSE KwIf \o CallExprBool \o condition \o Backtick
    ELSE IF HasPrefix(action, KwWith) THEN
        LET value == TrimPrefix(action, KwWith)
        IN  KwWith \o CallExpr \o TrimSpace(value) \o Backtick
    ELSE IF action = KwEnd THEN KwEnd
    ELSE IF action = KwElse THEN KwElse
    ELSE IF HasPrefix(action, KwElseIf) THEN
        LET condition == TrimSpace(TrimPrefix(action, KwElseIf))
        IN  IF (depth > 0 /\ HasPrefix(condition, Dot)) \/ Contains(condition, Dollar)
            THEN KwElseIf \o condition
            ELSE KwElseIf \o CallExprBool \o condition \o Backtick
    ELSE IF HasPrefix(action, KwRange) THEN
        LET value == TrimSpace(TrimPrefix(action, KwRange))
            parts == Split(value, Assign)
        IN  IF Contains(value, Assign) THEN
                IF Len(parts) = 2
                THEN KwRange \o TrimSpace(parts[1]) \o AssignSp \o CallExpr
                         \o TrimSpace(parts[2]) \o Backtick
                ELSE KwRange \o value
            ELSE KwRange \o CallExpr \o value \o Backtick
    ELSE IF depth > 0 /\ (HasPrefix(action, Dot) \/ action = Dot) THEN action
    ELSE IF Contains(action, Assign) THEN
        LET parts == Split(action, Assign)
        IN  IF Len(parts) = 2 THEN
                LET varName == TrimSpace(parts[1])
                    e == TrimSpace(parts[2])
                IN  IF depth > 0 /\ e = Dot
                    THEN varName \o AssignSp \o Dot
                    ELSE varName \o AssignSp \o CallExpr \o e \o Backtick
            ELSE action
    ELSE IF HasPrefix(action, Dollar) THEN action
    ELSE CallExpr \o TrimSpace(action) \o Backtick

\* template.go: the switch of preProcessExpressions, what it does to contextDepth
depthAfterTpl(action, depth) ==
    IF HasPrefix(action, KwIf) THEN depth
    ELSE IF HasPrefix(action, KwWith) THEN depth + 1
    ELSE IF action = KwEnd THEN (IF depth > 0 THEN depth - 1 ELSE depth)
    ELSE IF action = KwElse THEN depth
    ELSE IF HasPrefix(action, KwElseIf) THEN depth
    ELSE IF HasPrefix(action, KwRange) THEN depth + 1
    ELSE depth

Variants == {"tpl", "alt"}

rewriteAction(v, action, depth) ==
    IF v = "alt" THEN processAction(action, depth) ELSE switchAction(action, depth)

\* the update of contextDepth with no test of contextDepth > 0 before the decrement
depthAfterNoFloor(v, action, depth) ==
    IF HasPrefix(action, KwRange) \/ HasPrefix(action, KwWith) THEN depth + 1
    ELSE IF action = KwEnd THEN depth - 1
    ELSE depth

\* the update of contextDepth with an end that leaves it as it is
depthAfterEndKept(v, action, depth) ==
    IF HasPrefix(action, KwRange) \/ HasPrefix(action, KwWith) THEN depth + 1 ELSE depth

depthAfter(v, action, depth) ==
    IF v = "alt" THEN depthAfterAlt(action, depth) ELSE depthAfterTpl(action, depth)

-----------------------------------------------------------------------------
(* One iteration of the loop of preProcessExpressions (the same in both files) *)

\* start := strings.Index(remaining, "{{")
actStart(rem) == Index(rem, LeftDelim)

\* actEnd without `end += start`
actEndRelative(rem) == Index(Slice(rem, actStart(rem), Len(rem)), RightDelim)

\* end := strings.Index(remaining[start:], "}}"), made absolute (end += start)
actEnd(rem) ==
    LET e == Index(Slice(rem, actStart(rem), Len(rem)), RightDelim)
    IN  IF e = -1 THEN -1 ELSE e + actStart(rem)

\* action := remaining[start+2 : end]
rawAction(rem) == Slice(rem, actStart(rem) + 2, actEnd(rem))

trimLeft(raw) == HasPrefix(raw, Dash)

trimRight(raw) == HasSuffix(raw, Dash)

\* action = strings.TrimSpace(strings.TrimSuffix(strings.TrimPrefix(action, "-"), "-"))
trimAction(raw) == TrimSpace(TrimSuffix(TrimPrefix(raw, Dash), Dash))

\* what one iteration writes for the action: delimiters, trim markers, rewritten body
emitAction(v, raw, depth) ==
    LeftDelim
        \o (IF trimLeft(raw) THEN Dash \o Space ELSE Space)
        \o rewriteAction(v, trimAction(raw), depth)
        \o (IF trimRight(raw) THEN Space \o Dash ELSE Space)
        \o RightDelim

\* the whole loop, as Parse runs it
RECURSIVE scanFrom(_, _, _, _)
scanFrom(v, rem, res, depth) ==
    IF actStart(rem) = -1 THEN res \o rem
    ELSE IF actEnd(rem) = -1
         THEN res \o Slice(rem, 0, actStart(rem)) \o Slice(rem, actStart(rem), Len(rem))
    ELSE scanFrom(v, Slice(rem, actEnd(rem) + 2, Len(rem)),
                  res \o Slice(rem, 0, actStart(rem)) \o emitAction(v, rawAction(rem), depth),
                  depthAfter(v, trimAction(rawAction(rem)), depth))

preProcessExpressions(v, t) == scanFrom(v, t, <<>>, 0)

-----------------------------------------------------------------------------
(* The template texts the model rewrites *)

RECURSIVE CatsUpTo(_, _)
\* every concatenation of at most n members of ps
CatsUpTo(ps, n) ==
    IF n = 0 THEN {<<>>}
    ELSE LET prev == CatsUpTo(ps, n - 1)
         IN  prev \cup {f \o p : f \in prev, p \in ps}

Act(body) == LeftDelim \o body \o RightDelim

\* fragments of an action: identifier, dot, dollar, := in any order
FragPieces == {IdX, Dot, Dollar, Assign}

Keywords == {<<>>, KwIf, KwElseIf, KwWith, KwRange, KwEnd, KwElse}

\* actions that open a range/with block, to reach a depth above zero
Openers == {Act(KwRange \o IdX), Act(KwWith \o IdX)}

\* one generated action, behind at most MaxDepth opened blocks
ClassTexts ==
    {o \o Act(k \o f) : o \in CatsUpTo(Openers, MaxDepth), k \in Keywords,
                        f \in CatsUpTo(FragPieces, MaxPieces)}

\* delimiters, trim markers, blanks and literal text in any order
DelimPieces == {IdX, LeftDelim, RightDelim, Dash, Space}

DelimTexts == CatsUpTo(DelimPieces, MaxSegs)

\* templates of the repository's tests and README
SampleTexts ==
    { Act(KwRange \o IdX) \o Act(Space \o Dot \o Space) \o Act(KwEnd) \o Act(Dot \o IdX),
      Act(Dash \o Space \o KwWith \o IdX \o Space)
          \o Act(Dash \o Space \o Dollar \o IdX \o AssignSp \o Dot \o Space)
          \o Act(Space \o Dollar \o IdX \o Space)
          \o Act(Dash \o Space \o KwEnd \o Space),
      Act(Dash \o Space \o KwRange \o Dollar \o IdX \o AssignSp \o IdX \o Space \o Dash)
          \o Act(KwIf \o Space \o Dollar \o IdX \o Dot \o IdX) \o Act(KwElse) \o Act(KwEnd)
          \o Act(KwEnd),
      Act(Dollar \o ParenOpen \o DQuote \o IdX \o DQuote \o ParenClose),
      Act(Dash \o Space \o Dollar \o IdX \o AssignSp \o IdX \o ParenOpen \o IdX \o ParenClose
              \o Space) \o IdX \o Act(Space \o Dollar \o IdX \o Space) }

\* a dot reference, as written inside a range or with block
Leaf == Act(Dot \o IdX)

BlockOpeners == {Act(KwIf \o IdX), Act(KwWith \o IdX), Act(KwRange \o IdX)}

RECURSIVE Nested(_)
\* blocks nested at most n deep: an if, with or range, the blocks inside it, maybe a
\* dot reference after them, and its own end
Nested(n) ==
    IF n = 0 THEN {<<>>}
    ELSE LET inner == Nested(n - 1)
         IN  inner \cup {o \o b \o t \o Act(KwEnd) :
                            o \in BlockOpeners, b \in inner, t \in {<<>>, Leaf}}

\* templates whose blocks are each closed by their own end
BlockTexts == {a \o b : a \in Nested(MaxNest), b \in Nested(1)}

ScanTexts == ClassTexts \cup DelimTexts \cup SampleTexts \cup BlockTexts

-----------------------------------------------------------------------------
(* The scan as a state machine: one step per loop iteration *)

NoIter == [kind |-> "none", raw |-> <<>>, action |-> <<>>, depth |-> 0, out |-> <<>>]

Chunk(isAct, in, out) == [act |-> isAct, in |-> in, out |-> out]

ScanInit ==
    /\ variant \in Variants
    /\ input \in ScanTexts
    /\ remaining = input
    /\ result = <<>>
    /\ contextDepth = 0
    /\ pc = "scan"
    /\ last = NoIter
    /\ chunks = <<>>
    /\ text = <<>>
    /\ tmpl = <<>>
    /\ exprCache = {}
    /\ templateVars = <<>>
    /\ sink = <<>>
    /\ evals = 0
    /\ lastOp = "NewTemplate"
    /\ lastErr = ""
    /\ file = <<>>
    /\ facadeIdle
    /\ sharedIdle

\* no "{{" is left: the rest is copied and the loop ends
ScanPlain ==
    /\ pc = "scan"
    /\ actStart(remaining) = -1
    /\ result' = result \o remaining
    /\ chunks' = Append(chunks, Chunk(FALSE, remaining, remaining))
    /\ last' = [NoIter EXCEPT !.kind = "plain"]
    /\ pc' = "done"
    /\ UNCHANGED <<variant, input, remaining, contextDepth>>
    /\ UNCHANGED tmplVars
    /\ UNCHANGED <<facadeVars, sharedVars>>

\* ScanUnterminated writing the text before the "{{" only
ScanUnterminatedDropped ==
    /\ pc = "scan"
    /\ actStart(remaining) # -1
    /\ actEnd(remaining) = -1
    /\ result' = result \o Slice(remaining, 0, actStart(remaining))
    /\ chunks' = Append(chunks, Chunk(FALSE, remaining, remaining))
    /\ last' = [NoIter EXCEPT !.kind = "unterminated"]
    /\ pc' = "done"
    /\ UNCHANGED <<variant, input, remaining, contextDepth>>
    /\ UNCHANGED tmplVars
    /\ UNCHANGED <<facadeVars, sharedVars>>

\* a "{{" without "}}": the text before it and the rest are copied, the loop ends
ScanUnterminated ==
    /\ pc = "scan"
    /\ actStart(remaining) # -1
    /\ actEnd(remaining) = -1
    /\ result' = result \o Slice(remaining, 0, actStart(remaining))
                        \o Slice(remaining, actStart(remaining), Len(remaining))
    /\ chunks' = Append(chunks, Chunk(FALSE, remaining, remaining))
    /\ last' = [NoIter EXCEPT !.kind = "unterminated"]
    /\ pc' = "done"
    /\ UNCHANGED <<variant, input, remaining, contextDepth>>
    /\ UNCHANGED tmplVars
    /\ UNCHANGED <<facadeVars, sharedVars>>

\* ScanAction without `remaining = remaining[end+2:]`
ScanActionStuck ==
    /\ pc = "scan"
    /\ actStart(remaining) # -1
    /\ actEnd(remaining) # -1
    /\ LET lit == Slice(remaining, 0, actStart(remaining))
           raw == rawAction(remaining)
           action == trimAction(raw)
           emitted == emitAction(variant, raw, contextDepth)
       IN  /\ result' = result \o lit \o emitted
           /\ chunks' = chunks \o <<Chunk(FALSE, lit, lit), Chunk(TRUE, Act(raw), emitted)>>
           /\ last' = [kind |-> "action", raw |-> raw, action |-> action,
                       depth |-> contextDepth,
                       out |-> rewriteAction(variant, action, contextDepth)]
           /\ contextDepth' = depthAfter(variant, action, contextDepth)
    /\ UNCHANGED <<variant, input, pc, remaining>>
    /\ UNCHANGED tmplVars
    /\ UNCHANGED <<facadeVars, sharedVars>>

\* a "{{ ... }}" pair: the text before it is copied, the action is rewritten
ScanAction ==
    /\ pc = "scan"
    /\ actStart(remaining) # -1
    /\ actEnd(remaining) # -1
    /\ LET lit == Slice(remaining, 0, actStart(remaining))
           raw == rawAction(remaining)
           action == trimAction(raw)
           emitted == emitAction(variant, raw, contextDepth)
       IN  /\ result' = result \o lit \o emitted
           /\ chunks' = chunks \o <<Chunk(FALSE, lit, lit), Chunk(TRUE, Act(raw), emitted)>>
           /\ last' = [kind |-> "action", raw |-> raw, action |-> action,
                       depth |-> contextDepth,
                       out |-> rewriteAction(variant, action, contextDepth)]
           /\ contextDepth' = depthAfter(variant, action, contextDepth)
           /\ remaining' = Slice(remaining, actEnd(remaining) + 2, Len(remaining))
    /\ UNCHANGED <<variant, input, pc>>
    /\ UNCHANGED tmplVars
    /\ UNCHANGED <<facadeVars, sharedVars>>

ScanNext == ScanPlain \/ ScanUnterminated \/ ScanAction

ScanSpec == ScanInit /\ [][ScanNext]_vars

-----------------------------------------------------------------------------
(* Vocabulary of the claims about the rewriting of one action *)

\* the host-syntax test as the specification words it
HostSyntax(frag, depth) ==
    \/ \E i \in 1..Len(frag) : frag[i] = "$"
    \/ depth > 0 /\ Len(frag) > 0 /\ frag[1] = "."

IsIf(a) == HasPrefix(a, KwIf)
IsElseIf(a) == HasPrefix(a, KwElseIf)
IsWith(a) == HasPrefix(a, KwWith)
IsRange(a) == HasPrefix(a, KwRange)
IsControl(a) == IsIf(a) \/ IsElseIf(a) \/ IsWith(a) \/ IsRange(a)
HasAssign(a) == \E i \in 1..(Len(a) - 1) : a[i] = ":" /\ a[i + 1] = "="
TwoParts(a) == Len(Split(a, Assign)) = 2
IsAssignment(a) == ~IsControl(a) /\ HasAssign(a) /\ TwoParts(a)
IsBare(a) == ~IsControl(a) /\ ~HasAssign(a) /\ a # KwEnd /\ a # KwElse

\* the text after a keyword, and the two sides of a :=
After(a, kw) == TrimSpace(TrimPrefix(a, kw))
Lhs(a) == TrimSpace(Split(a, Assign)[1])
Rhs(a) == TrimSpace(Split(a, Assign)[2])

\* a call of the registered function fn on the raw-quoted e
Call(fn, e) == fn \o e \o Backtick

\* a string without its blanks
Squash(s) == SelectSeq(s, LAMBDA c : ~IsSpace(c))

RECURSIVE CatIn(_)
CatIn(cs) == IF cs = <<>> THEN <<>> ELSE Head(cs).in \o CatIn(Tail(cs))

RECURSIVE CatOut(_)
CatOut(cs) == IF cs = <<>> THEN <<>> ELSE Head(cs).out \o CatOut(Tail(cs))

NumActs(cs) == Cardinality({i \in 1..Len(cs) : cs[i].act})

RECURSIVE CountActions(_)
\* the number of "{{ ... }}" pairs of a text, read from left to right
CountActions(t) ==
    LET opens == {i \in 1..(Len(t) - 1) : t[i] = "{" /\ t[i + 1] = "{"}
        open == CHOOSE i \in opens : \A j \in opens : i <= j
        closes == {i \in 1..(Len(t) - 1) : i >= open /\ t[i] = "}" /\ t[i + 1] = "}"}
        close == CHOOSE i \in closes : \A j \in closes : i <= j
    IN  IF opens = {} \/ closes = {} THEN 0
        ELSE 1 + CountActions(SubSeq(t, close + 2, Len(t)))

Stepped == last.kind = "action"

\* the delimited text the last iteration wrote
Emitted == chunks[Len(chunks)].out

-----------------------------------------------------------------------------
(* Claims about the rewriting of one action, under ScanSpec *)

\* C1: a fragment is classified as host-syntax (written without a call of expr or
\* exprBool) exactly when it holds a $ or the depth is above zero and it begins with
\* a dot; the test is the same for if / else if conditions, with targets, range
\* sources, assignment right-hand sides and bare actions.
C1_HostSyntaxEverywhere ==
    Stepped =>
        LET a == last.action
            d == last.depth
            passed == ~Contains(last.out, Backtick)
        IN  /\ IsIf(a) => (passed <=> HostSyntax(After(a, KwIf), d))
            /\ IsElseIf(a) => (passed <=> HostSyntax(After(a, KwElseIf), d))
            /\ IsWith(a) => (passed <=> HostSyntax(After(a, KwWith), d))
            /\ (IsRange(a) /\ ~HasAssign(a)) => (passed <=> HostSyntax(After(a, KwRange), d))
            /\ (IsRange(a) /\ HasAssign(a) /\ TwoParts(After(a, KwRange)))
                   => (passed <=> HostSyntax(Rhs(After(a, KwRange)), d))
            /\ IsAssignment(a) => (passed <=> HostSyntax(Rhs(a), d))
            /\ IsBare(a) => (passed <=> HostSyntax(a, d))

\* C2: an action "if <cond>" or "else if <cond>" is written unchanged when <cond> is
\* host-syntax and as the keyword followed by exprBool on the raw-quoted <cond>
\* otherwise; neither form changes the scope depth.
C2_IfElseIf ==
    Stepped =>
        LET a == last.action
            kw == IF IsIf(a) THEN KwIf ELSE KwElseIf
            cond == After(a, kw)
        IN  (IsIf(a) \/ IsElseIf(a)) =>
                /\ last.out = (IF HostSyntax(cond, last.depth)
                               THEN kw \o cond
                               ELSE kw \o Call(CallExprBool, cond))
                /\ contextDepth = last.depth

\* C2 witness: an else-if on a dot reference inside a range was passed through, and
\* an if on an expression was wrapped in exprBool.
C2_Witness ==
    /\ Stepped
    /\ IsElseIf(last.action)
    /\ last.depth > 0
    /\ HasPrefix(After(last.action, KwElseIf), Dot)
    /\ last.out = KwElseIf \o After(last.action, KwElseIf)

\* C3: an action "with <val>" is written unchanged when <val> is host-syntax and as
\* with followed by expr on the raw-quoted <val> otherwise.
C3_With ==
    Stepped =>
        LET a == last.action
            val == After(a, KwWith)
        IN  IsWith(a) =>
                last.out = (IF HostSyntax(val, last.depth)
                            THEN KwWith \o val
                            ELSE KwWith \o Call(CallExpr, val))

\* C4: an action "range <src>": with a := that splits <src> in two, the variables
\* are kept and the right-hand side is left as it is when host-syntax and wrapped in
\* expr otherwise; without :=, the whole source is left or wrapped the same way.
C4_Range ==
    Stepped =>
        LET a == last.action
            src == After(a, KwRange)
            d == last.depth
        IN  /\ (IsRange(a) /\ HasAssign(src) /\ TwoParts(src)) =>
                   last.out = KwRange \o Lhs(src) \o AssignSp
                                  \o (IF HostSyntax(Rhs(src), d) THEN Rhs(src)
                                      ELSE Call(CallExpr, Rhs(src)))
            /\ (IsRange(a) /\ ~HasAssign(src)) =>
                   last.out = KwRange \o (IF HostSyntax(src, d) THEN src
                                          ELSE Call(CallExpr, src))

\* C5: a non-range action "<name> := <rhs>" is written unchanged when <rhs> is
\* host-syntax and as "<name> := " followed by expr on the raw-quoted <rhs> otherwise.
C5_Assignment ==
    Stepped =>
        LET a == last.action
        IN  IsAssignment(a) =>
                last.out = Lhs(a) \o AssignSp
                               \o (IF HostSyntax(Rhs(a), last.depth) THEN Rhs(a)
                                   ELSE Call(CallExpr, Rhs(a)))

\* C6: any other action is written unchanged when host-syntax, and otherwise as expr
\* on the raw-quoted, whitespace-trimmed action body, character for character.
C6_BareAction ==
    Stepped =>
        LET a == last.action
        IN  IsBare(a) =>
                last.out = (IF HostSyntax(a, last.depth) THEN a
                            ELSE Call(CallExpr, a))

\* C7: the rewritten action has a leading trim marker exactly when the original has
\* one and a trailing one exactly when the original has one, and never more markers
\* than the original has dashes: a single "-" does not become two markers.
C7_TrimMarkers ==
    Stepped =>
        LET lead == HasPrefix(Emitted, LeftDelim \o Dash)
            trail == HasSuffix(Emitted, Dash \o RightDelim)
            dashes == Cardinality({i \in {1, Len(last.raw)} \cap (1..Len(last.raw)) :
                                      last.raw[i] = "-"})
        IN  /\ lead <=> (Len(last.raw) > 0 /\ last.raw[1] = "-")
            /\ trail <=> (Len(last.raw) > 0 /\ last.raw[Len(last.raw)] = "-")
            /\ (IF lead THEN 1 ELSE 0) + (IF trail THEN 1 ELSE 0) <= dashes

\* C8: the rewritten text holds every character outside the delimiter pairs
\* unchanged and in order, and exactly one rewritten action for each action of the
\* input, in the same order and at the same place between the literal segments.
C8_LiteralsAndOrder ==
    /\ result = CatOut(chunks)
    /\ CatIn(chunks) \o (IF pc = "scan" THEN remaining ELSE <<>>) = input
    /\ \A i \in 1..Len(chunks) :
           IF chunks[i].act
           THEN /\ i > 1 /\ ~chunks[i - 1].act
                /\ HasPrefix(chunks[i].in, LeftDelim) /\ HasSuffix(chunks[i].in, RightDelim)
                /\ HasPrefix(chunks[i].out, LeftDelim) /\ HasSuffix(chunks[i].out, RightDelim)
           ELSE chunks[i].out = chunks[i].in
    /\ pc = "done" => NumActs(chunks) = CountActions(input)

\* C8 witness: a finished scan of a text with two actions and literal text between
\* them and after them.
C8_Witness ==
    /\ pc = "done"
    /\ NumActs(chunks) >= 2
    /\ \E i \in 2..Len(chunks) : ~chunks[i].act /\ chunks[i].in # <<>> /\ chunks[i - 1].act
    /\ result # input

\* C9: rewriting an action that is already host-syntax changes nothing but blanks.
C9_HostSyntaxNoOp ==
    Stepped =>
        (HostSyntax(last.action, last.depth) => Squash(last.out) = Squash(last.action))

-----------------------------------------------------------------------------
(* C1, C3, C4 and C6 fail on src/template.go only: on src/unnamed/part_001,    *)
(* where isGoSyntax decides every form, the same statements hold.              *)

OnAlt_HostSyntaxEverywhere == variant = "alt" => C1_HostSyntaxEverywhere
OnAlt_With == variant = "alt" => C3_With
OnAlt_Range == variant = "alt" => C4_Range
OnAlt_BareAction == variant = "alt" => C6_BareAction

-----------------------------------------------------------------------------
(* The Template object: NewTemplate, Parse, Execute, ExecuteToString *)

\* Template.tmpl is nil until a Parse succeeds
Nil == [parsed |-> FALSE, body |-> <<>>]

Parsed(body) == [parsed |-> TRUE, body |-> body]

\* templates of TestErrorHandling: {{ u.x }} and {{ if x ++ x }}x{{end}}
ErrorTexts ==
    { Act(Space \o IdU \o Dot \o IdX \o Space),
      Act(Space \o KwIf \o IdX \o Space \o PlusPlus \o Space \o IdX \o Space)
          \o IdX \o Act(KwEnd) }

\* the texts handed to Parse; each of their expr / exprBool calls stands outside
\* every range / with / if block, so that an Execute reaches all of them in order
TemplateTexts ==
    SampleTexts \cup ErrorTexts
        \cup {<<>>, IdX, LeftDelim \o IdX, Act(IdX) \o IdX}

\* expr.Compile refuses the expression: it is no expression of the language
exprMalformed(e) == e = <<>> \/ Contains(e, PlusPlus) \/ Contains(e, Assign)

\* the expression names an identifier that the Data Context does not bind: expr.Compile
\* refuses it when it is given the context's types, expr.Run fails on it otherwise
exprUnknown(e) == HasPrefix(e, IdU)

exprFails(e) == exprMalformed(e) \/ exprUnknown(e)

RECURSIVE exprCalls(_)
\* the raw-quoted arguments of the expr / exprBool calls of a rewritten text, in order
exprCalls(body) ==
    LET i == Index(body, Backtick)
        rest == Slice(body, i + 1, Len(body))
        j == Index(rest, Backtick)
    IN  IF i = -1 \/ j = -1 THEN <<>>
        ELSE <<Slice(rest, 0, j)>> \o exprCalls(Slice(rest, j + 1, Len(rest)))

Range(f) == {f[i] : i \in DOMAIN f}

\* processed := t.preProcessExpressions(text), for each text Parse may be handed
processed == [v \in Variants |-> [t \in TemplateTexts |-> preProcessExpressions(v, t)]]

Init ==
    /\ variant \in Variants
    /\ text = <<>>
    /\ tmpl = Nil
    /\ exprCache = {}
    /\ templateVars = <<>>
    /\ sink = <<>>
    /\ evals = 0
    /\ lastOp = "NewTemplate"
    /\ lastErr = ""
    /\ file = <<>>
    /\ input = <<>>
    /\ remaining = <<>>
    /\ result = <<>>
    /\ contextDepth = 0
    /\ pc = "idle"
    /\ last = NoIter
    /\ chunks = <<>>
    /\ facadeIdle
    /\ sharedIdle

\* the host engine refuses a text that holds a "{{" with no "}}" after it (unclosed
\* action), and accepts a text that holds no "{{" at all (it is one literal)
hostRejects(body) ==
    \E i \in 1..(Len(body) - 1) :
        /\ SubSeq(body, i, i + 1) = LeftDelim
        /\ ~Contains(Slice(body, i + 1, Len(body)), RightDelim)

hostAccepts(body) == ~Contains(body, LeftDelim)

\* tmpl.Parse(processed): the verdicts the host engine may give on the rewriting of
\* each text
hostVerdicts ==
    [v \in Variants |-> [t \in TemplateTexts |->
        {a \in BOOLEAN : /\ hostRejects(processed[v][t]) => ~a
                         /\ hostAccepts(processed[v][t]) => a}]]

\* the file system: the readable files, by canonical path; the second one lies
\* outside the working directory
Files == (<<"a">> :> Act(IdX) \o IdX) @@ (<<"..", "s">> :> IdX)

RECURSIVE cleanFrom(_, _)
\* filepath.Clean of a relative path, element by element: "." is dropped, ".."
\* removes the element before it, or stays when there is none to remove
cleanFrom(done, rest) ==
    IF rest = <<>> THEN (IF done = <<>> THEN <<".">> ELSE done)
    ELSE IF Head(rest) = "." THEN cleanFrom(done, Tail(rest))
    ELSE IF Head(rest) = ".." /\ done # <<>> /\ done[Len(done)] # ".."
    THEN cleanFrom(SubSeq(done, 1, Len(done) - 1), Tail(rest))
    ELSE cleanFrom(Append(done, Head(rest)), Tail(rest))

Clean(path) == cleanFrom(<<>>, path)

\* the paths handed to ParseFile, as their elements: a, d/../a, ./m, ../s, a/../../s
FilePaths ==
    {<<"a">>, <<"d", "..", "a">>, <<".", "m">>, <<"..", "s">>, <<"a", "..", "..", "s">>}

\* Parse compiling the expressions of the rewritten text as it goes
ParseCompiling ==
    /\ pc = "idle"
    /\ \E t \in TemplateTexts :
       \E accepted \in hostVerdicts[variant][t] :
           /\ text' = t
           /\ exprCache' = exprCache
                  \cup {e \in Range(exprCalls(processed[variant][t])) : ~exprFails(e)}
           /\ IF accepted /\ \A e \in Range(exprCalls(processed[variant][t])) : ~exprFails(e)
              THEN tmpl' = Parsed(processed[variant][t]) /\ lastErr' = ""
              ELSE tmpl' = tmpl /\ lastErr' = "parsing template"
    /\ lastOp' = "Parse"
    /\ file' = <<>>
    /\ UNCHANGED <<variant, templateVars, sink, evals>>
    /\ UNCHANGED scanVars
    /\ UNCHANGED <<facadeVars, sharedVars>>

\* Template.Parse: the text is stored and rewritten; the host engine accepts the
\* rewritten text or not (its verdict is not modelled), and only then is tmpl set
Parse ==
    /\ pc = "idle"
    /\ \E t \in TemplateTexts :
       \E accepted \in hostVerdicts[variant][t] :
           /\ text' = t
           /\ IF accepted
              THEN tmpl' = Parsed(processed[variant][t]) /\ lastErr' = ""
              ELSE tmpl' = tmpl /\ lastErr' = "parsing template"
    /\ lastOp' = "Parse"
    /\ file' = <<>>
    /\ UNCHANGED <<variant, exprCache, templateVars, sink, evals>>
    /\ UNCHANGED scanVars
    /\ UNCHANGED <<facadeVars, sharedVars>>

\* Template.ParseFile: os.ReadFile of the cleaned path; a read error is returned
\* before Parse is called; otherwise Parse runs on the file's text
ParseFile ==
    /\ pc = "idle"
    /\ \E path \in FilePaths :
           /\ file' = path
           /\ IF Clean(path) \notin DOMAIN Files
              THEN /\ lastErr' = "reading template file"
                   /\ UNCHANGED <<text, tmpl>>
              ELSE \E accepted \in hostVerdicts[variant][Files[Clean(path)]] :
                       /\ text' = Files[Clean(path)]
                       /\ IF accepted
                          THEN /\ tmpl' = Parsed(processed[variant][text'])
                               /\ lastErr' = ""
                          ELSE tmpl' = tmpl /\ lastErr' = "parsing template"
    /\ lastOp' = "ParseFile"
    /\ UNCHANGED <<variant, exprCache, templateVars, sink, evals>>
    /\ UNCHANGED scanVars
    /\ UNCHANGED <<facadeVars, sharedVars>>

RECURSIVE setVarNames(_)
\* the names the setVar calls of a rewritten text store under
setVarNames(body) ==
    LET i == Index(body, SetVarOpen)
        rest == Slice(body, i + Len(SetVarOpen) + 1, Len(body))
        j == Index(rest, DQuote)
    IN  IF i = -1 \/ j = -1 THEN {}
        ELSE {Slice(rest, 0, j)} \cup setVarNames(Slice(rest, j + 1, Len(rest)))

\* a value held by the Template whose content is not followed
Stored == [goType |-> "interface{}", val |-> <<>>]

\* t.templateVars after the host engine ran a rewritten text on a Data Context that
\* is not followed: which of its setVar calls were reached depends on that context
storedAfter(body, tv) ==
    { [n \in DOMAIN tv \cup S |-> IF n \in S THEN Stored ELSE tv[n]] :
          S \in SUBSET setVarNames(body) }

\* Execute with no nil check: the host engine is run whatever tmpl is
ExecuteUnchecked ==
    /\ pc = "idle"
    /\ Len(sink) < MaxExec
    /\ templateVars' \in storedAfter(tmpl.body, templateVars)
    /\ LET calls == exprCalls(tmpl.body)
       IN  /\ exprCache' = exprCache \cup Range(calls)
           /\ evals' = evals + Len(calls)
           /\ sink' = Append(sink, "output")
           /\ lastErr' = ""
    /\ lastOp' \in {"Execute", "ExecuteToString"}
    /\ file' = <<>>
    /\ UNCHANGED <<variant, text, tmpl>>
    /\ UNCHANGED scanVars
    /\ UNCHANGED <<facadeVars, sharedVars>>

\* Template.Execute and ExecuteToString (Execute on a buffer): "template not
\* parsed" while tmpl is nil; otherwise the host engine runs the parsed text and
\* calls evalExpr / evalExprBool (compileExpr, then expr.Run) for its expr calls,
\* until one of them fails: a malformed expression at compileExpr, one that names an
\* unknown identifier at compileExpr or at expr.Run, any other one at expr.Run or not
Execute ==
    /\ pc = "idle"
    /\ lastOp' \in {"Execute", "ExecuteToString"}
    /\ IF tmpl = Nil
       THEN /\ lastErr' = "template not parsed"
            /\ UNCHANGED <<exprCache, templateVars, sink, evals>>
       ELSE /\ Len(sink) < MaxExec
            /\ templateVars' \in storedAfter(tmpl.body, templateVars)
            /\ LET calls == exprCalls(tmpl.body)
               IN  \/ /\ \A i \in 1..Len(calls) : ~exprFails(calls[i])
                      /\ exprCache' = exprCache \cup Range(calls)
                      /\ evals' = evals + Len(calls)
                      /\ sink' = Append(sink, "output")
                      /\ lastErr' = ""
                   \/ \E k \in 1..Len(calls), compiled \in BOOLEAN :
                          /\ \A i \in 1..(k - 1) : ~exprFails(calls[i])
                          /\ exprMalformed(calls[k]) => ~compiled
                          /\ compiled \/ calls[k] \notin exprCache
                          /\ exprCache' = exprCache \cup {calls[i] : i \in 1..(k - 1)}
                                              \cup (IF compiled THEN {calls[k]} ELSE {})
                          /\ evals' = evals + k
                          /\ sink' = Append(sink, "partial")
                          /\ lastErr' = (IF compiled THEN "evaluating expression"
                                         ELSE "compiling expression")
    /\ file' = <<>>
    /\ UNCHANGED <<variant, text, tmpl>>
    /\ UNCHANGED scanVars
    /\ UNCHANGED <<facadeVars, sharedVars>>

Next == Parse \/ ParseFile \/ Execute

Spec == Init /\ [][Next]_vars

-----------------------------------------------------------------------------
(* Claims about the Template object, under Spec *)

\* C10: while no Parse has succeeded on a Template, every Execute / ExecuteToString
\* returns "template not parsed", nothing has been written to the sink and no
\* expression has been evaluated.
C10_ExecuteBeforeParse ==
    tmpl = Nil =>
        /\ lastOp \in {"Execute", "ExecuteToString"} => lastErr = "template not parsed"
        /\ sink = <<>>
        /\ evals = 0
        /\ exprCache = {}

\* C10 witness: ExecuteToString was called after a Parse that the host engine
\* refused, and returned "template not parsed".
C10_Witness ==
    /\ tmpl = Nil
    /\ text # <<>>
    /\ lastOp = "ExecuteToString"
    /\ lastErr = "template not parsed"

-----------------------------------------------------------------------------
(* The values an expression evaluates to: a Go interface{} with its dynamic   *)
(* type. A number is held as an integer; a float is held in tenths (15 is     *)
(* 1.5), which is enough to tell zero from non-zero and to print it.          *)

Value(t, v) == [goType |-> t, val |-> v]

IntTypes == {"int", "int8", "int16", "int32", "int64"}
UintTypes == {"uint", "uint8", "uint16", "uint32", "uint64"}
FloatTypes == {"float32", "float64"}
NumericTypes == IntTypes \cup UintTypes \cup FloatTypes

NilValue == Value("nil", <<>>)
NilPointer == Value("*struct", <<>>)
Pointer == Value("*struct", <<"x">>)
StructValue == Value("struct", <<"x">>)

Str(s) == Value("string", s)

\* the value BuildData binds to `env`: the caller's map itself, not a copy
EnvRef == Value("map[string]string", <<"envMap">>)

\* the value BuildData binds to `$`: the closure over ctx and envMap
ShellFunc == Value("func", <<"execute">>)

\* the keys of the caller's environment map, in the order fmt prints them
EnvA == <<"A">>
EnvB == <<"B">>
EnvKeyOrder == <<EnvA, EnvB>>

\* a map of strings as its key / value pairs, sorted by key
envPairs(env) ==
    LET ks == SelectSeq(EnvKeyOrder, LAMBDA k : k \in DOMAIN env)
    IN  [i \in 1..Len(ks) |-> <<ks[i], env[ks[i]]>>]

\* the texts of the string values
WordTrue == <<"t", "r", "u", "e">>
WordFalse == <<"f", "a", "l", "s", "e">>
SQuote == <<"'">>
Digit0 == <<"0">>
Digit1 == <<"1">>

BoolWords ==
    {WordTrue, WordFalse, Digit1, Digit0, <<"t">>, <<"f">>, <<"T">>, <<"F">>,
     <<"T", "R", "U", "E">>, <<"F", "A", "L", "S", "E">>,
     <<"T", "r", "u", "e">>, <<"F", "a", "l", "s", "e">>}

StringTexts ==
    BoolWords
        \cup {<<>>, IdX, Space, <<"y", "e", "s">>, <<"t", "R", "U", "E">>,
              Space \o WordTrue \o Space, DQuote \o WordFalse \o DQuote,
              SQuote \o Digit1 \o SQuote, Space \o DQuote \o Digit0 \o SQuote,
              WordTrue \o IdX, <<"\n">> \o WordTrue}

Values ==
    {Value("bool", b) : b \in BOOLEAN}
        \cup {Value(t, n) : t \in IntTypes, n \in {-1, 0, 1, MaxNum}}
        \cup {Value(t, n) : t \in UintTypes, n \in {0, 1, MaxNum}}
        \cup {Value(t, n) : t \in FloatTypes, n \in {-15, 0, 5, 10 * MaxNum}}
        \cup {Str(s) : s \in StringTexts}
        \cup {Value("[]byte", s) : s \in {<<>>, IdX, WordTrue}}
        \cup {Value(t, es) : t \in {"slice", "array"}, es \in {<<>>, <<IdX>>, <<IdX, WordTrue>>}}
        \cup {Value("map", es) : es \in {<<>>, <<<<IdX, Digit1>>>>}}
        \cup {NilValue, NilPointer, Pointer, StructValue}

-----------------------------------------------------------------------------
(* expr.go: Evaluate and IsTruthy *)

Bound(m) == [bound |-> TRUE, m |-> m]

\* the call of the shell helper as an expression: $("x")
ShellCall == Dollar \o ParenOpen \o DQuote \o IdX \o DQuote \o ParenClose

\* what the command of ShellCall prints, trimmed
ShellOutput == <<"o", "u", "t">>

\* the expression calls the function the context binds to `$`
callsShell(ex, d) ==
    /\ d.bound
    /\ ex = ShellCall
    /\ Dollar \in DOMAIN d.m
    /\ d.m[Dollar].goType = "func"

\* Evaluate, for the expressions that are one identifier of the context or one call
\* of its shell helper: expr.Compile
\* refuses a name the context does not bind, expr.Run fetches the bound value
Evaluate(ex, d) ==
    IF d.bound /\ ex \in DOMAIN d.m
    THEN [out |-> d.m[ex], err |-> ""]
    ELSE IF callsShell(ex, d)
    THEN [out |-> Str(ShellOutput), err |-> ""]
    ELSE [out |-> NilValue, err |-> "unknown name"]

\* strings.Trim(s, cutset)
Trim(s, cutset) ==
    LET keep == {i \in 1..Len(s) : s[i] \notin cutset}
    IN  IF keep = {} THEN <<>>
        ELSE SubSeq(s, CHOOSE i \in keep : \A j \in keep : i <= j,
                       CHOOSE i \in keep : \A j \in keep : i >= j)

\* strconv.ParseBool
ParseBool(s) ==
    IF s \in {Digit1, <<"t">>, <<"T">>, <<"T", "R", "U", "E">>, WordTrue, <<"T", "r", "u", "e">>}
    THEN [b |-> TRUE, err |-> ""]
    ELSE IF s \in {Digit0, <<"f">>, <<"F">>, <<"F", "A", "L", "S", "E">>, WordFalse,
                   <<"F", "a", "l", "s", "e">>}
    THEN [b |-> FALSE, err |-> ""]
    ELSE [b |-> FALSE, err |-> "invalid syntax"]

\* the types of `case int, int64, float64, uint, uint64`
SwitchNumeric == {"int", "int64", "float64", "uint", "uint64"}

IsTruthy(ex, d) ==
    LET r == Evaluate(ex, d)
        v == r.out
    IN  IF r.err # "" THEN [b |-> FALSE, err |-> r.err]
        ELSE IF v.goType = "bool" THEN [b |-> v.val, err |-> ""]
        ELSE IF v.goType \in SwitchNumeric THEN [b |-> v.val # 0, err |-> ""]
        ELSE IF v.goType = "string" THEN ParseBool(Trim(v.val, {"\"", "'", " "}))
        ELSE [b |-> FALSE, err |-> ""]

-----------------------------------------------------------------------------
(* expr.go: EvaluateString *)

Digits == <<"0", "1", "2", "3", "4", "5", "6", "7", "8", "9">>

RECURSIVE Itoa(_)
\* the decimal digits of n >= 0
Itoa(n) == IF n < 10 THEN <<Digits[n + 1]>> ELSE Itoa(n \div 10) \o <<Digits[(n % 10) + 1]>>

\* fmt.Sprintf("%v", o) of an integer
FormatInt(n) == IF n < 0 THEN Dash \o Itoa(-n) ELSE Itoa(n)

\* fmt.Sprintf("%v", o) of a float (held in tenths): the shortest decimal form
FormatFloat(n) ==
    LET a == IF n < 0 THEN -n ELSE n
        whole == Itoa(a \div 10)
        frac == IF a % 10 = 0 THEN <<>> ELSE Dot \o Itoa(a % 10)
    IN  (IF n < 0 THEN Dash ELSE <<>>) \o whole \o frac

RECURSIVE Join(_, _)
\* strings.Join
Join(ss, sep) ==
    IF ss = <<>> THEN <<>>
    ELSE IF Len(ss) = 1 THEN ss[1]
    ELSE ss[1] \o sep \o Join(Tail(ss), sep)

\* fmt.Sprintf("%v", output) of a slice or array of strings: [a b]
FormatList(es) == <<"[">> \o Join(es, Space) \o <<"]">>

\* fmt.Sprintf("%v", output) of a map of strings: map[k:v]
FormatMap(es) ==
    <<"m", "a", "p", "[">>
        \o Join([i \in 1..Len(es) |-> es[i][1] \o <<":">> \o es[i][2]], Space) \o <<"]">>

Rendered(s) == [str |-> s, err |-> "", typ |-> "", ex |-> <<>>]

\* fmt.Errorf("unexpected output type %T from expression %q", output, ex)
Unexpected(t, ex) == [str |-> <<>>, err |-> "unexpected output type", typ |-> t, ex |-> ex]

EvaluateString(ex, d) ==
    LET r == Evaluate(ex, d)
        o == r.out
    IN  IF r.err # "" THEN [str |-> <<>>, err |-> r.err, typ |-> "", ex |-> <<>>]
        ELSE IF o.goType = "string" THEN Rendered(o.val)
        ELSE IF o.goType = "float64" THEN Rendered(FormatFloat(o.val))
        ELSE IF o.goType \in SwitchNumeric THEN Rendered(FormatInt(o.val))
        ELSE IF o.goType = "bool" THEN Rendered(IF o.val THEN WordTrue ELSE WordFalse)
        ELSE IF o.goType = "[]byte" THEN Rendered(o.val)
        ELSE IF o = NilValue THEN Rendered(<<>>)
        ELSE IF o = NilPointer THEN Rendered(<<>>)
        ELSE IF o = EnvRef THEN Rendered(FormatMap(envPairs(envMap)))
        ELSE IF o.goType = "map" THEN Rendered(FormatMap(o.val))
        ELSE IF o.goType \in {"slice", "array"} THEN Rendered(FormatList(o.val))
        ELSE Unexpected(o.goType, ex)

-----------------------------------------------------------------------------
(* expr.go: BuildData, the shell helper it installs and environmentToSlice *)

KeyArch == <<"a", "r", "c", "h">>
KeyEnv == <<"e", "n", "v">>
KeyShell == Dollar

\* runtime.GOOS, runtime.GOARCH and the process environment (os.Getenv("H"))
Hosts ==
    {[os |-> <<"l", "i", "n", "u", "x">>, arch |-> <<"a", "m", "d", "6", "4">>,
      home |-> <<"v">>],
     [os |-> <<"d", "a", "r", "w", "i", "n">>, arch |-> <<"a", "r", "m", "6", "4">>,
      home |-> <<>>]}

\* f, with the bindings of g written over it
Override(f, g) ==
    [k \in DOMAIN f \cup DOMAIN g |-> IF k \in DOMAIN g THEN g[k] ELSE f[k]]

\* pairsMap keeping the first pair of a key
pairsMapFirst(kvPairs) ==
    LET n == Len(kvPairs) \div 2
        at(k) == {i \in 1..n : kvPairs[2 * i - 1].val = k}
    IN  [k \in {kvPairs[2 * i - 1].val : i \in 1..n} |->
            kvPairs[2 * (CHOOSE i \in at(k) : \A j \in at(k) : i <= j)]]

\* kvMap after the loop over kvPairs: a later pair writes over an earlier one
pairsMap(kvPairs) ==
    LET n == Len(kvPairs) \div 2
        at(k) == {i \in 1..n : kvPairs[2 * i - 1].val = k}
    IN  [k \in {kvPairs[2 * i - 1].val : i \in 1..n} |->
            kvPairs[2 * (CHOOSE i \in at(k) : \A j \in at(k) : j <= i)]]

\* the four bindings BuildData writes after the loop
builtins(h) ==
    [k \in {KeyOs, KeyArch, KeyEnv, KeyShell} |->
        IF k = KeyOs THEN Str(h.os)
        ELSE IF k = KeyArch THEN Str(h.arch)
        ELSE IF k = KeyEnv THEN EnvRef
        ELSE ShellFunc]

\* BuildData writing its four bindings before the loop over kvPairs
BuildDataCallerWins(h, kvPairs) ==
    IF Len(kvPairs) % 2 # 0
    THEN [data |-> NoData, err |-> "uneven number of key-value pairs"]
    ELSE IF \E i \in 1..(Len(kvPairs) \div 2) : kvPairs[2 * i - 1].goType # "string"
    THEN [data |-> NoData, err |-> "key must be a string"]
    ELSE [data |-> Bound(Override(builtins(h), pairsMap(kvPairs))), err |-> ""]

BuildData(h, kvPairs) ==
    IF Len(kvPairs) % 2 # 0
    THEN [data |-> NoData, err |-> "uneven number of key-value pairs"]
    ELSE IF \E i \in 1..(Len(kvPairs) \div 2) : kvPairs[2 * i - 1].goType # "string"
    THEN [data |-> NoData, err |-> "key must be a string"]
    ELSE [data |-> Bound(Override(pairsMap(kvPairs), builtins(h))), err |-> ""]

IsNameChar(c) == c \in {"H", "a", "x", "v", "_"}

\* os.Getenv
Getenv(h, name) == IF name = <<"H">> THEN h.home ELSE <<>>

RECURSIVE nameLen(_)
\* the length of the run of name characters that s begins with
nameLen(s) == IF s = <<>> \/ ~IsNameChar(s[1]) THEN 0 ELSE 1 + nameLen(Tail(s))

\* the one-character names of the shell: $$, $*, $#, $@, $!, $?, $-, $0 .. $9
IsShellSpecialVar(c) == c \in {"$", "*", "#", "@", "!", "?", "-"} \cup Range(Digits)

RECURSIVE ExpandEnv(_, _)
\* os.ExpandEnv: $NAME and ${NAME} are replaced by the process environment's value;
\* "${}" and an unclosed "${" are eaten; a $ before anything else, or last, stays
ExpandEnv(h, s) ==
    IF s = <<>> THEN <<>>
    ELSE IF s[1] # "$" \/ Len(s) = 1 THEN <<s[1]>> \o ExpandEnv(h, Tail(s))
    ELSE LET rest == Tail(s)
             close == Index(rest, <<"}">>)
             n == nameLen(rest)
         IN  IF rest[1] = "{" THEN
                 IF close = -1 THEN ExpandEnv(h, Tail(rest))
                 ELSE IF close = 1 THEN ExpandEnv(h, Slice(rest, 2, Len(rest)))
                 ELSE Getenv(h, Slice(rest, 1, close))
                          \o ExpandEnv(h, Slice(rest, close + 1, Len(rest)))
             ELSE IF IsShellSpecialVar(rest[1])
             THEN Getenv(h, <<rest[1]>>) \o ExpandEnv(h, Tail(rest))
             ELSE IF n = 0 THEN Dollar \o ExpandEnv(h, rest)
             ELSE Getenv(h, Slice(rest, 0, n)) \o ExpandEnv(h, Slice(rest, n, Len(rest)))

\* the test of environmentToSlice on one value
needsExpand(v) == Contains(v, Dollar) \/ Contains(v, <<"{">>)

\* environmentToSlice: the map it was handed, after its first loop (the slice it
\* returns lists this map as key=value)
environmentToSlice(h, env) ==
    [k \in DOMAIN env |-> IF needsExpand(env[k]) THEN ExpandEnv(h, env[k]) ELSE env[k]]

\* what a shell command does when the interpreter runs it: whether its text parses,
\* what it writes to standard output and to standard error, and its exit status
Command(p, o, e, st) == [parses |-> p, stdout |-> o, stderr |-> e, status |-> st]

Newline == <<"\n">>
TextOut == <<"o", "u", "t">>
TextWarn == <<"w", "a", "r", "n">>

Commands ==
    {Command(TRUE, o, e, st) : o \in {<<>>, TextOut \o Newline, Space \o TextOut \o Newline},
                               e \in {<<>>, TextWarn \o Newline},
                               st \in {0, 3}}
        \cup {Command(FALSE, <<>>, <<>>, 0)}

\* execute: the parse of the command, the run, and the output it returns with its error
execute(c) ==
    IF ~c.parses THEN [out |-> <<>>, err |-> "unable to parse command", status |-> 0]
    ELSE IF c.status # 0
    THEN [out |-> c.stderr, err |-> "command exited with non-zero status",
          status |-> c.status]
    ELSE [out |-> TrimSpace(c.stdout \o (IF c.stderr # <<>> THEN Newline \o c.stderr
                                         ELSE <<>>)),
          err |-> "", status |-> 0]

\* the closure BuildData binds to `$`: fmt.Errorf("command failed: %v, output: %s",
\* err, output) when execute fails, the trimmed output otherwise
shellHelper(c) ==
    LET r == execute(c)
    IN  IF r.err # ""
        THEN [str |-> <<>>, err |-> "command failed",
              sh |-> [cmd |-> c, cause |-> r.err, status |-> r.status, output |-> r.out]]
        ELSE [str |-> TrimSpace(r.out), err |-> "",
              sh |-> [cmd |-> c, cause |-> "", status |-> 0, output |-> <<>>]]

\* the environment maps a caller hands to BuildData
EnvValues == {<<"a">>, <<"{", "a", "}">>, <<"$", "{", "H", "}", "x">>}

EnvMaps ==
    {<<>>} \cup [{EnvA} -> EnvValues]
           \cup {[k \in {EnvA, EnvB} |-> IF k = EnvA THEN <<"a">> ELSE <<"$", "H">>]}

-----------------------------------------------------------------------------
(* The truthiness function each Template registers as exprBool *)

\* reflect.Value.IsZero
IsZero(o) ==
    IF o.goType \in NumericTypes THEN o.val = 0
    ELSE IF o.goType = "bool" THEN ~o.val
    ELSE IF o.goType \in {"string", "array"} THEN o.val = <<>>
    ELSE o \in {NilValue, NilPointer}

\* template.go: Template.evalExprBool
evalExprBoolTpl(ex, d) ==
    LET r == Evaluate(ex, d)
        v == r.out
    IN  IF r.err # "" THEN [b |-> FALSE, err |-> r.err]
        ELSE IF v.goType = "bool" THEN [b |-> v.val, err |-> ""]
        ELSE IF v.goType \in SwitchNumeric THEN [b |-> v.val # 0, err |-> ""]
        ELSE IF v.goType = "string" THEN ParseBool(Trim(v.val, {"\"", "'", " "}))
        ELSE [b |-> v # NilValue, err |-> ""]

\* part_001: Template.evalExprBool
evalExprBoolAlt(ex, d) ==
    LET r == Evaluate(ex, d)
        v == r.out
    IN  IF r.err # "" THEN [b |-> FALSE, err |-> r.err]
        ELSE IF v.goType = "bool" THEN [b |-> v.val, err |-> ""]
        ELSE IF v.goType \in SwitchNumeric THEN [b |-> v.val # 0, err |-> ""]
        ELSE IF v.goType = "string" THEN
            LET trimmed == TrimSpace(v.val)
            IN  IF trimmed = <<>> THEN [b |-> FALSE, err |-> ""]
                ELSE IF ParseBool(trimmed).err = "" THEN ParseBool(trimmed)
                ELSE [b |-> TRUE, err |-> ""]
        ELSE IF v = NilValue THEN [b |-> FALSE, err |-> ""]
        ELSE [b |-> ~IsZero(v), err |-> ""]

evalExprBool(v, ex, d) == IF v = "alt" THEN evalExprBoolAlt(ex, d) ELSE evalExprBoolTpl(ex, d)

-----------------------------------------------------------------------------
(* The facade of expr.go as a state machine: a caller builds a Data Context and  *)
(* evaluates expressions on it, directly or through a Template's exprBool        *)

templateIdle ==
    /\ text = <<>>
    /\ tmpl = Nil
    /\ exprCache = {}
    /\ templateVars = <<>>
    /\ sink = <<>>
    /\ evals = 0
    /\ lastOp = "NewTemplate"
    /\ lastErr = ""
    /\ file = <<>>

scanIdle ==
    /\ input = <<>>
    /\ remaining = <<>>
    /\ result = <<>>
    /\ contextDepth = 0
    /\ pc = "idle"
    /\ last = NoIter
    /\ chunks = <<>>

\* the arguments a caller hands to BuildData after the environment map
KvItems == {Str(IdX), Str(KeyOs), Str(WordTrue), Value("int", 1)}

RECURSIVE SeqsUpTo(_, _)
\* every sequence of at most n members of S
SeqsUpTo(S, n) ==
    IF n = 0 THEN {<<>>}
    ELSE LET prev == SeqsUpTo(S, n - 1)
         IN  prev \cup {Append(q, x) : q \in prev, x \in S}

KvLists ==
    SeqsUpTo(KvItems, MaxKv)
        \cup {<<Str(IdX), v>> : v \in Values}
        \cup {<<Str(k), Str(IdX)>> : k \in {KeyArch, KeyEnv, KeyShell}}

\* the expressions a caller evaluates
Exprs == {IdX, IdU, KeyOs, KeyEnv, KeyShell, ShellCall}

EvalInit ==
    /\ variant \in Variants
    /\ host \in Hosts
    /\ envMap \in EnvMaps
    /\ envGiven = envMap
    /\ data = NoData
    /\ call = NoCall
    /\ templateIdle
    /\ scanIdle
    /\ sharedIdle

\* what evaluating ex does outside its result: a call of the shell helper runs
\* environmentToSlice on the caller's map
evalEffect(ex) ==
    envMap' = IF callsShell(ex, data) THEN environmentToSlice(host, envMap) ELSE envMap

evalFrame ==
    /\ UNCHANGED <<variant, host, envGiven, data>>
    /\ UNCHANGED <<tmplVars, scanVars, sharedVars>>

\* the caller builds its Data Context first, and keeps what BuildData returns
CallBuildData ==
    /\ call.op = "none"
    /\ \E kv \in KvLists :
           LET r == BuildData(host, kv)
           IN  /\ data' = r.data
               /\ call' = [NoCall EXCEPT !.op = "BuildData", !.kv = kv, !.err = r.err]
    /\ UNCHANGED <<variant, host, envMap, envGiven>>
    /\ UNCHANGED <<tmplVars, scanVars, sharedVars>>

CallIsTruthy ==
    /\ \E ex \in Exprs :
           LET r == IsTruthy(ex, data)
           IN  /\ call' = [NoCall EXCEPT !.op = "IsTruthy", !.ex = ex,
                                         !.out = Evaluate(ex, data).out,
                                         !.b = r.b, !.err = r.err]
               /\ evalEffect(ex)
    /\ evalFrame

CallEvaluateString ==
    /\ \E ex \in Exprs :
           LET r == EvaluateString(ex, data)
           IN  /\ call' = [NoCall EXCEPT !.op = "EvaluateString", !.ex = ex,
                                         !.out = Evaluate(ex, data).out,
                                         !.str = r.str, !.err = r.err, !.typ = r.typ]
               /\ evalEffect(ex)
    /\ evalFrame

\* exprBool of a Template made on `data`, called by the host engine on ex
CallEvalExprBool ==
    /\ \E ex \in Exprs :
           LET r == evalExprBool(variant, ex, data)
           IN  /\ call' = [NoCall EXCEPT !.op = "exprBool", !.ex = ex,
                                         !.out = Evaluate(ex, data).out,
                                         !.b = r.b, !.err = r.err]
               /\ evalEffect(ex)
    /\ evalFrame

\* the caller (or an expression) calls the function bound to `$` on a command
CallShell ==
    /\ data.bound
    /\ \E c \in Commands :
           LET r == shellHelper(c)
           IN  call' = [NoCall EXCEPT !.op = "$", !.ex = ShellCall, !.str = r.str,
                                      !.err = r.err, !.sh = r.sh]
    /\ envMap' = environmentToSlice(host, envMap)
    /\ evalFrame

EvalNext ==
    CallBuildData \/ CallIsTruthy \/ CallEvaluateString \/ CallEvalExprBool \/ CallShell

EvalSpec == EvalInit /\ [][EvalNext]_vars

-----------------------------------------------------------------------------
(* Vocabulary of the claims about the facade *)

\* the last call evaluated its expression to a value (Evaluate returned no error)
Evaluated(op) == call.op = op /\ Evaluate(call.ex, data).err = ""

RECURSIVE Stripped(_)
\* s without the quote and space characters around it
Stripped(s) ==
    IF s = <<>> THEN s
    ELSE IF s[1] \in {"\"", "'", " "} THEN Stripped(Tail(s))
    ELSE IF s[Len(s)] \in {"\"", "'", " "} THEN Stripped(SubSeq(s, 1, Len(s) - 1))
    ELSE s

TrueSpellings ==
    {Digit1, <<"t">>, <<"T">>, WordTrue, <<"T", "R", "U", "E">>, <<"T", "r", "u", "e">>}

FalseSpellings ==
    {Digit0, <<"f">>, <<"F">>, WordFalse, <<"F", "A", "L", "S", "E">>,
     <<"F", "a", "l", "s", "e">>}

\* the boolean and the error-or-not that the is-truthy policy gives a value
Truthiness(v) ==
    IF v.goType = "bool" THEN [b |-> v.val, failed |-> FALSE]
    ELSE IF v.goType \in NumericTypes THEN [b |-> v.val # 0, failed |-> FALSE]
    ELSE IF v.goType = "string" THEN
        [b |-> Stripped(v.val) \in TrueSpellings,
         failed |-> Stripped(v.val) \notin TrueSpellings \cup FalseSpellings]
    ELSE [b |-> FALSE, failed |-> FALSE]

RECURSIVE Atoi(_)
\* the number that a text of decimal digits writes
Atoi(s) ==
    IF s = <<>> THEN 0
    ELSE 10 * Atoi(SubSeq(s, 1, Len(s) - 1))
             + (CHOOSE d \in 0..9 : Digits[d + 1] = s[Len(s)])

IsDigits(s) == s # <<>> /\ \A i \in 1..Len(s) : s[i] \in Range(Digits)

\* s writes the integer n in decimal
WritesInt(s, n) ==
    IF n < 0 THEN HasPrefix(s, Dash) /\ IsDigits(Tail(s)) /\ Atoi(Tail(s)) = -n
    ELSE IsDigits(s) /\ Atoi(s) = n

\* s writes in decimal the float that is n tenths
WritesTenths(s, n) ==
    LET a == IF n < 0 THEN -n ELSE n
        body == IF n < 0 THEN TrimPrefix(s, Dash) ELSE s
        dot == Index(body, Dot)
    IN  /\ n < 0 => HasPrefix(s, Dash)
        /\ IF dot = -1 THEN IsDigits(body) /\ 10 * Atoi(body) = a
           ELSE /\ IsDigits(Slice(body, 0, dot))
                /\ Len(body) = dot + 2
                /\ IsDigits(Slice(body, dot + 1, Len(body)))
                /\ 10 * Atoi(Slice(body, 0, dot)) + Atoi(Slice(body, dot + 1, Len(body))) = a

ReservedKeys == {KeyOs, KeyArch, KeyEnv, KeyShell}

\* the key / value pairs of an argument list of even length
PairsOf(kv) == 1..(Len(kv) \div 2)
KeyAt(kv, i) == kv[2 * i - 1]
ValueAt(kv, i) == kv[2 * i]

Built == call.op = "BuildData"

-----------------------------------------------------------------------------
(* Claims about the facade, under EvalSpec *)

\* C11: IsTruthy of an evaluated value: a boolean is returned as it is; a value of
\* any numeric type (every integer width, signed or unsigned, every float width) is
\* truthy exactly when it is not zero; a string is stripped of the quotes and spaces
\* around it and read as a boolean literal, with an error when it is no recognised
\* spelling; any other value gives false and no error.
C11_IsTruthyTotal ==
    Evaluated("IsTruthy") =>
        /\ call.b = Truthiness(call.out).b
        /\ (call.err # "") = Truthiness(call.out).failed

\* C12: EvaluateString of an evaluated value: a string comes back unchanged; a value
\* of any numeric type is written in decimal; a boolean is "true" or "false"; bytes
\* are decoded as text; nil and a nil pointer give the empty string and no error; a
\* map, slice or array is written in the generic form; any other type gives an error
\* naming the expression and the type, and the empty string.
C12_EvaluateStringByType ==
    Evaluated("EvaluateString") =>
        LET o == call.out
        IN  IF o.goType \in {"string", "[]byte"} THEN call.str = o.val /\ call.err = ""
            ELSE IF o.goType \in IntTypes \cup UintTypes
            THEN WritesInt(call.str, o.val) /\ call.err = ""
            ELSE IF o.goType \in FloatTypes
            THEN WritesTenths(call.str, o.val) /\ call.err = ""
            ELSE IF o.goType = "bool"
            THEN call.str = (IF o.val THEN WordTrue ELSE WordFalse) /\ call.err = ""
            ELSE IF o \in {NilValue, NilPointer} THEN call.str = <<>> /\ call.err = ""
            ELSE IF o.goType \in {"slice", "array"}
            THEN HasPrefix(call.str, <<"[">>) /\ call.err = ""
            ELSE IF o.goType \in {"map", "map[string]string"}
            THEN HasPrefix(call.str, <<"m", "a", "p", "[">>) /\ call.err = ""
            ELSE /\ call.err = "unexpected output type"
                 /\ call.typ = o.goType
                 /\ call.ex # <<>>
                 /\ call.str = <<>>

\* C13: BuildData returns an error and no context when its key/value list has odd
\* length or holds a key that is no string; for every even-length list of string
\* keys it returns a context that binds each key, other than the four keys BuildData
\* sets itself, to the value of the last pair that names it.
C13_BuildDataArguments ==
    Built =>
        LET kv == call.kv
            keysOk == \A i \in PairsOf(kv) : KeyAt(kv, i).goType = "string"
        IN  IF Len(kv) % 2 # 0 \/ ~keysOk
            THEN call.err # "" /\ ~data.bound
            ELSE /\ call.err = ""
                 /\ data.bound
                 /\ \A i \in PairsOf(kv) :
                        LET k == KeyAt(kv, i).val
                        IN  /\ k \in DOMAIN data.m
                            /\ (/\ k \notin ReservedKeys
                                /\ \A j \in PairsOf(kv) : j > i => KeyAt(kv, j).val # k)
                                   => data.m[k] = ValueAt(kv, i)

\* C13 as worded: every key of an even-length list of string keys is bound to its
\* paired value.
C13_BindsEveryPair ==
    (Built /\ call.err = "") =>
        \A i \in PairsOf(call.kv) : data.m[KeyAt(call.kv, i).val] = ValueAt(call.kv, i)

\* C13 witness: BuildData returned a context for a list that names one key twice
\* with two values, and the context holds the later one.
C13_Witness ==
    /\ Built
    /\ call.err = ""
    /\ \E i, j \in PairsOf(call.kv) :
           /\ i < j
           /\ KeyAt(call.kv, i) = KeyAt(call.kv, j)
           /\ ValueAt(call.kv, i) # ValueAt(call.kv, j)
           /\ data.m[KeyAt(call.kv, j).val] = ValueAt(call.kv, j)

\* C14: every context BuildData returns binds os to the host's operating system,
\* arch to its architecture, env to the environment map it was handed and $ to the
\* shell helper, whatever the key/value pairs are: a caller's value for one of these
\* four keys is not in the context.
C14_BuiltinsAlwaysBound ==
    data.bound =>
        /\ ReservedKeys \subseteq DOMAIN data.m
        /\ data.m[KeyOs] = Str(host.os)
        /\ data.m[KeyArch] = Str(host.arch)
        /\ data.m[KeyEnv] = EnvRef
        /\ data.m[KeyShell] = ShellFunc

\* C14 witness: BuildData returned a context for a list that gives its own value to
\* `os` and to another key; the context holds the other key's value and the host's os.
C14_Witness ==
    /\ Built
    /\ call.err = ""
    /\ \E i, j \in PairsOf(call.kv) :
           /\ KeyAt(call.kv, i).val = KeyOs
           /\ ValueAt(call.kv, i) # Str(host.os)
           /\ KeyAt(call.kv, j).val \notin ReservedKeys
           /\ data.m[KeyAt(call.kv, j).val] = ValueAt(call.kv, j)

\* C15: no call of Evaluate, IsTruthy, EvaluateString, of a Template or of the shell
\* helper changes the Data Context or the environment map the caller handed to
\* BuildData.
C15_ContextReadOnly == envMap = envGiven

\* the kinds of value C20 speaks of: boolean, number, string, nil, collection
PolicyTypes ==
    {"bool", "string", "nil", "slice", "array", "map", "map[string]string"}
        \cup NumericTypes

\* C20: exprBool returns, for every evaluated value (boolean, zero or non-zero number,
\* string, nil, collection), the boolean and the error outcome that IsTruthy returns
\* for it.
C20_ExprBoolIsTruthy ==
    (call.op = "exprBool" /\ call.out.goType \in PolicyTypes) =>
        /\ call.b = IsTruthy(call.ex, data).b
        /\ (call.err # "") = (IsTruthy(call.ex, data).err # "")

\* s without the white space at its end
TrimRight(s) ==
    LET keep == {i \in 1..Len(s) : ~IsSpace(s[i])}
    IN  IF keep = {} THEN <<>>
        ELSE SubSeq(s, 1, CHOOSE i \in keep : \A j \in keep : i >= j)

\* the shell helper ran a command (its text parsed)
Ran == call.op = "$" /\ call.sh.cmd.parses

\* C21: the shell helper returns the command's standard output without its trailing
\* white space when the command exits with status zero; when it exits with another
\* status the helper fails with an error that carries the exit status and the
\* captured output, which is standard output with standard error appended.
C21_ShellHelperResult ==
    Ran =>
        LET c == call.sh.cmd
        IN  IF c.status = 0
            THEN call.err = "" /\ call.str = TrimRight(c.stdout)
            ELSE /\ call.err # ""
                 /\ call.sh.status = c.status
                 /\ call.sh.output = c.stdout \o c.stderr

\* the part of C21 that the code keeps: a command that exits with status zero and
\* writes nothing to standard error gives its standard output without the white
\* space around it; any other status gives an error that carries the status
C21_QuietSuccessOrStatus ==
    Ran =>
        LET c == call.sh.cmd
        IN  /\ (c.status = 0 /\ c.stderr = <<>>) =>
                   call.err = "" /\ call.str = TrimSpace(c.stdout)
            /\ c.status # 0 => call.err # "" /\ call.sh.status = c.status

-----------------------------------------------------------------------------
(* More claims about the Template object, under Spec *)

\* the expr / exprBool calls of the parsed text that cannot be evaluated
BadCalls == {e \in Range(exprCalls(tmpl.body)) : exprFails(e)}

Executed == lastOp \in {"Execute", "ExecuteToString"}

\* C17: Parse neither compiles nor evaluates an expression: it succeeds whenever the
\* host engine accepts the rewritten text, also with a malformed expression or an
\* unknown identifier in it, and leaves the expression cache as it was; the failure
\* comes with the Execute / ExecuteToString that follows, which returns an error.
C17_ParseDoesNotCompile ==
    /\ [][lastOp' = "Parse" => (exprCache' = exprCache /\ evals' = evals)]_vars
    /\ []((Executed /\ tmpl # Nil /\ BadCalls # {}) => lastErr # "")

\* C17 witness: Parse of {{ u.x }} succeeded with nothing compiled or evaluated; the
\* state before the Execute that fails.
C17_Witness ==
    /\ lastOp = "Parse"
    /\ lastErr = ""
    /\ text = Act(Space \o IdU \o Dot \o IdX \o Space)
    /\ BadCalls # {}
    /\ exprCache = {}
    /\ evals = 0

\* a path that leads out of the directory it is relative to
Unsafe(path) == Head(Clean(path)) = ".."

\* C22: ParseFile refuses every path that, once canonical, leads out of the
\* directory (it returns an error and parses nothing), and a file that cannot be read
\* gives the read error with the Template's text, parsed form and cache unchanged.
C22_ParseFileRejectsTraversal ==
    (lastOp = "ParseFile" /\ Unsafe(file)) => lastErr # ""

\* the part of C22 that the code keeps: a ParseFile that ends with the read error
\* has changed neither the stored text, nor the parsed form, nor the cache
C22_ReadFailureLeavesTemplate ==
    [][(lastOp' = "ParseFile" /\ lastErr' = "reading template file") =>
           (text' = text /\ tmpl' = tmpl /\ exprCache' = exprCache)]_vars

\* C28: whenever the Template holds a parsed form, it is the host parse of the
\* rewrite of the raw text the Template stores now: after a Parse that failed too,
\* the stored text and the parsed form come from the same call of Parse.
C28_ParsedFormOfStoredText ==
    tmpl # Nil => tmpl.body = processed[variant][text]

\* a Parse that succeeds leaves the parsed form of the text it was given: a later
\* Parse replaces the earlier parsed form
C28_SuccessfulParseReplaces ==
    [][(lastOp' \in {"Parse", "ParseFile"} /\ lastErr' = "") =>
           tmpl' = Parsed(processed[variant][text'])]_vars

-----------------------------------------------------------------------------
(* One more claim about the rewriting of one action, under ScanSpec *)

\* C18: a bare action that calls the shell helper of the Data Context, such as
\* {{$("x")}}, is written as expr on the raw-quoted action text, so that the
\* expression language evaluates it.
C18_ShellActionWrapped ==
    (Stepped /\ last.action = ShellCall) => last.out = Call(CallExpr, ShellCall)

-----------------------------------------------------------------------------
(* Two Templates made on one Data Context, each used by its own goroutine. A    *)
(* step is one access group of the code: Parse, the start of Execute, one       *)
(* compileExpr, one expr.Run up to the shell helper, one iteration of the first *)
(* loop of environmentToSlice, the rest of the shell helper.                    *)

Goroutines == {1, 2}

\* NewTemplate: nothing parsed, an empty cache. An entry of the cache is the
\* program stored for an expression, named by the number of the expr.Compile run
\* on that expression that made it
NewTemplate == [tmpl |-> Nil, exprCache |-> <<>>]

\* the templates the goroutines parse: {{with $("x")}}x{{end}},
\* {{range x}}{{ os }}{{end}} and {{ u.x }}
SharedTexts ==
    { Act(KwWith \o ShellCall) \o IdX \o Act(KwEnd),
      Act(KwRange \o IdX) \o Act(Space \o KeyOs \o Space) \o Act(KwEnd),
      Act(Space \o IdU \o Dot \o IdX \o Space) }

\* the environment maps the shared Data Context is built on
SharedEnvMaps == {m \in EnvMaps : DOMAIN m = {EnvA, EnvB} \/ m = [k \in {EnvA} |-> <<"{", "a", "}">>]}

sharedProcessed == [v \in Variants |-> [t \in SharedTexts |-> preProcessExpressions(v, t)]]

Idle == [pc |-> "idle", todo |-> <<>>, iter |-> <<>>, n |-> 0]

\* compileExpr without the look-up in the cache
compileExprNoLookup(tp, e) ==
    IF exprFails(e) THEN [tpl |-> tp, ok |-> FALSE]
    ELSE [tpl |-> [tp EXCEPT !.exprCache =
                       (e :> IF e \in DOMAIN @ THEN @[e] + 1 ELSE 1) @@ @],
          ok |-> TRUE]

\* Template.compileExpr: the cached program if there is one; otherwise expr.Compile,
\* whose program is stored under the expression when it succeeds
compileExpr(tp, e) ==
    IF e \in DOMAIN tp.exprCache THEN [tpl |-> tp, ok |-> TRUE]
    ELSE IF exprFails(e) THEN [tpl |-> tp, ok |-> FALSE]
    ELSE [tpl |-> [tp EXCEPT !.exprCache = (e :> 1) @@ @], ok |-> TRUE]

SharedInit ==
    /\ variant \in Variants
    /\ host \in Hosts
    /\ envMap \in SharedEnvMaps
    /\ envGiven = envMap
    /\ data = BuildData(host, <<Str(IdX), Str(IdX)>>).data
    /\ call = NoCall
    /\ tpls = [g \in Goroutines |-> NewTemplate]
    /\ gor = [g \in Goroutines |-> Idle]
    /\ templateIdle
    /\ scanIdle

sharedFrame ==
    /\ UNCHANGED <<variant, host, envGiven, data, call>>
    /\ UNCHANGED <<tmplVars, scanVars>>

\* Template.Parse on the goroutine's own Template
GoParse(g) ==
    /\ gor[g].pc = "idle"
    /\ \E t \in SharedTexts, accepted \in BOOLEAN :
           tpls' = [tpls EXCEPT ![g].tmpl = IF accepted
                                     THEN Parsed(sharedProcessed[variant][t])
                                     ELSE @]
    /\ UNCHANGED <<gor, envMap>>
    /\ sharedFrame

\* Template.Execute up to the first call of expr / exprBool by the host engine
GoExecute(g) ==
    /\ gor[g].pc = "idle"
    /\ tpls[g].tmpl # Nil
    /\ gor[g].n < MaxEvals
    /\ LET calls == exprCalls(tpls[g].tmpl.body)
       IN  gor' = [gor EXCEPT ![g].pc = IF calls = <<>> THEN "idle" ELSE "exec",
                              ![g].todo = calls]
    /\ UNCHANGED <<tpls, envMap>>
    /\ sharedFrame

\* evalExpr: compileExpr on the next call; a failure ends the Execute
GoCompile(g) ==
    /\ gor[g].pc = "exec"
    /\ LET e == Head(gor[g].todo)
           r == compileExpr(tpls[g], e)
       IN  /\ tpls' = [tpls EXCEPT ![g] = r.tpl]
           /\ gor' = [gor EXCEPT ![g].pc = IF r.ok THEN "run" ELSE "idle",
                                 ![g].todo = IF r.ok THEN @ ELSE <<>>]
    /\ UNCHANGED envMap
    /\ sharedFrame

\* the goroutine's position after an evaluation: the host engine calls the same
\* expression again (the next iteration of a range), or goes on to the next call,
\* or returns from Execute
afterEval(g, again) ==
    LET rest == IF again THEN gor[g].todo ELSE Tail(gor[g].todo)
    IN  [pc |-> IF rest = <<>> THEN "idle" ELSE "exec", todo |-> rest, iter |-> <<>>,
         n |-> gor[g].n + 1]

\* whether the host engine may call the expression again
mayRepeat(g) == Contains(tpls[g].tmpl.body, KwRange) /\ gor[g].n + 1 < MaxEvals

\* evalExpr: expr.Run on the Data Context; a call of the shell helper enters
\* environmentToSlice on the map the Data Context holds
GoRun(g) ==
    /\ gor[g].pc = "run"
    /\ IF callsShell(Head(gor[g].todo), data)
       THEN gor' = [gor EXCEPT ![g].pc = "env",
                               ![g].iter = SelectSeq(EnvKeyOrder,
                                                     LAMBDA k : k \in DOMAIN envMap)]
       ELSE \E again \in {b \in BOOLEAN : b => mayRepeat(g)} :
                gor' = [gor EXCEPT ![g] = afterEval(g, again)]
    /\ UNCHANGED <<tpls, envMap>>
    /\ sharedFrame

\* environmentToSlice: one iteration of `for k, v := range env`
GoEnvLoop(g) ==
    /\ gor[g].pc = "env"
    /\ gor[g].iter # <<>>
    /\ LET k == Head(gor[g].iter)
       IN  envMap' = IF needsExpand(envMap[k])
                     THEN [envMap EXCEPT ![k] = ExpandEnv(host, @)]
                     ELSE envMap
    /\ gor' = [gor EXCEPT ![g].iter = Tail(@)]
    /\ UNCHANGED tpls
    /\ sharedFrame

\* environmentToSlice: the second loop; then execute runs the command and the
\* evaluation returns
GoEnvDone(g) ==
    /\ gor[g].pc = "env"
    /\ gor[g].iter = <<>>
    /\ gor' = [gor EXCEPT ![g] = afterEval(g, FALSE)]
    /\ UNCHANGED <<tpls, envMap>>
    /\ sharedFrame

\* what the next step of a goroutine writes, and what it reads, of the shared state
pendingWrites(g) ==
    IF gor[g].pc = "env" /\ gor[g].iter # <<>> /\ needsExpand(envMap[Head(gor[g].iter)])
    THEN {"envMap"} ELSE {}

pendingReads(g) == IF gor[g].pc = "env" THEN {"envMap"} ELSE {}

\* two goroutines are about to touch the same object, one of them writing
Conflict ==
    \E g, h \in Goroutines :
        g # h /\ pendingWrites(g) \cap (pendingReads(h) \cup pendingWrites(h)) # {}

\* a Go map written while another goroutine reads or writes it: the runtime may
\* detect it and end the process ("fatal error: concurrent map ...")
Fatal ==
    /\ Conflict
    /\ gor' = [g \in Goroutines |-> [gor[g] EXCEPT !.pc = "fatal"]]
    /\ UNCHANGED <<tpls, envMap>>
    /\ sharedFrame

SharedNext ==
    \/ \E g \in Goroutines :
           GoParse(g) \/ GoExecute(g) \/ GoCompile(g) \/ GoRun(g) \/ GoEnvLoop(g)
               \/ GoEnvDone(g)
    \/ Fatal

SharedSpec == SharedInit /\ [][SharedNext]_vars

-----------------------------------------------------------------------------
(* Claims about Templates that share a Data Context, under SharedSpec *)

\* C16: two Templates that share a Data Context can be parsed and executed by two
\* goroutines under every interleaving with no conflicting access: no goroutine is
\* ever about to write what the other is reading or writing, and nothing that the
\* shared context reaches is written.
C16_SharedContextSafe == ~Conflict /\ envMap = envGiven

\* on src/unnamed/part_001, whose rewriter hands no action with a $ to expr, the
\* shell helper is out of a Template's reach and the same statement holds
OnAlt_SharedContextSafe == variant = "alt" => C16_SharedContextSafe

\* C19: a Template's cache holds, for each expression, the one program that the one
\* successful run of the compiler on it made; an entry is never removed or replaced;
\* and a step that changes a Template's cache is a step of that Template's own
\* goroutine, so no evaluation on one Template touches the cache of the other.
C19_CachePerTemplate ==
    /\ [](\A t \in Goroutines : \A e \in DOMAIN tpls[t].exprCache :
              tpls[t].exprCache[e] = 1)
    /\ [][\A t \in Goroutines : \A e \in DOMAIN tpls[t].exprCache :
              /\ e \in DOMAIN tpls'[t].exprCache
              /\ tpls'[t].exprCache[e] = tpls[t].exprCache[e]]_vars
    /\ [][\A t \in Goroutines :
              tpls'[t].exprCache # tpls[t].exprCache =>
                  /\ gor'[t] # gor[t]
                  /\ \A h \in Goroutines \ {t} : gor'[h] = gor[h]]_vars

\* C19 witness: a Template has evaluated more expressions than its cache holds (one
\* was evaluated again, over a range or by a second Execute, and found in the cache)
\* while the other Template, which evaluated too, holds a different cache.
C19_Witness ==
    \E t, h \in Goroutines :
        /\ t # h
        /\ DOMAIN tpls[t].exprCache # {}
        /\ gor[t].n > Cardinality(DOMAIN tpls[t].exprCache)
        /\ gor[h].n > 0
        /\ DOMAIN tpls[h].exprCache # DOMAIN tpls[t].exprCache

-----------------------------------------------------------------------------
(* Vocabulary of the claims about the scope depth *)

RECURSIVE ActionBodies(_)
\* the trimmed bodies of the "{{ ... }}" pairs of a text, from left to right
ActionBodies(t) ==
    IF actStart(t) = -1 \/ actEnd(t) = -1 THEN <<>>
    ELSE <<trimAction(rawAction(t))>> \o ActionBodies(Slice(t, actEnd(t) + 2, Len(t)))

RECURSIVE OpenBlocks(_, _)
\* the blocks left open by a sequence of actions, innermost last: "if" for an if,
\* "scope" for a with or a range; <<"unmatched">> when an end closes nothing
OpenBlocks(as, stack) ==
    IF as = <<>> THEN stack
    ELSE IF IsIf(Head(as)) THEN OpenBlocks(Tail(as), Append(stack, "if"))
    ELSE IF IsWith(Head(as)) \/ IsRange(Head(as))
    THEN OpenBlocks(Tail(as), Append(stack, "scope"))
    ELSE IF Head(as) = KwEnd
    THEN (IF stack = <<>> THEN <<"unmatched">>
          ELSE OpenBlocks(Tail(as), SubSeq(stack, 1, Len(stack) - 1)))
    ELSE OpenBlocks(Tail(as), stack)

\* every "{{" is closed and every if, with and range is closed by its own end
WellFormed(t) == ~hostRejects(t) /\ OpenBlocks(ActionBodies(t), <<>>) = <<>>

\* the number of range / with blocks that a sequence of actions leaves open
OpenScopes(as) ==
    LET stack == OpenBlocks(as, <<>>)
    IN  Cardinality({i \in 1..Len(stack) : stack[i] = "scope"})

\* the text that the scan had consumed before its last iteration
Before == CatIn(SubSeq(chunks, 1, Len(chunks) - 1))

-----------------------------------------------------------------------------
(* Claims about the scope depth, under ScanSpec *)

\* C23: at every point of every scan, of a well-formed text or not, the scope depth
\* is at least zero; an end met at depth zero leaves the depth at zero.
C23_DepthNeverNegative ==
    /\ contextDepth >= 0
    /\ last.depth >= 0
    /\ (Stepped /\ last.action = KwEnd /\ last.depth = 0) => contextDepth = 0

\* C23 witness: the scan has just met an end at depth zero that closes no block.
C23_Witness ==
    /\ Stepped
    /\ last.action = KwEnd
    /\ last.depth = 0
    /\ contextDepth = 0
    /\ OpenBlocks(ActionBodies(Before), <<>>) = <<>>

\* C24: for every well-formed template, the scope depth is zero once the scan has
\* processed the last end of the text.
C24_BalancedAfterFinalEnd ==
    (/\ Stepped
     /\ last.action = KwEnd
     /\ KwEnd \notin Range(ActionBodies(remaining))
     /\ WellFormed(input)) => contextDepth = 0

\* C24 witness: the last end of a well-formed template whose range holds an if
\* block and a with block has been processed.
C24_Witness ==
    /\ Stepped
    /\ last.action = KwEnd
    /\ KwEnd \notin Range(ActionBodies(remaining))
    /\ WellFormed(input)
    /\ \E i, j, k \in 1..Len(ActionBodies(input)) :
           /\ i < j /\ j < k
           /\ IsRange(ActionBodies(input)[i])
           /\ IsWith(ActionBodies(input)[j])
           /\ ActionBodies(input)[k] = KwEnd
    /\ contextDepth = 0

\* C25: for every well-formed template and every action of it, the scope depth the
\* action is classified with is the number of range / with blocks open at that
\* point: an end that closes an if block does not lower it.
C25_DepthCountsOpenScopes ==
    (Stepped /\ WellFormed(input)) => last.depth = OpenScopes(ActionBodies(Before))

\* what the code keeps of C25: the depth is never above the number of open range /
\* with blocks, and equals it while no if block has been closed inside one
C25_DepthAtMostOpenScopes ==
    (Stepped /\ WellFormed(input)) => last.depth <= OpenScopes(ActionBodies(Before))

-----------------------------------------------------------------------------
(* Claims about the ends of the scan *)

\* the first "{{" of a text has no "}}" after it
Unterminated(t) ==
    LET opens == {i \in 1..(Len(t) - 1) : t[i] = "{" /\ t[i + 1] = "{"}
        open == CHOOSE i \in opens : \A j \in opens : i <= j
    IN  /\ opens # {}
        /\ ~\E j \in (open + 2)..(Len(t) - 1) : t[j] = "}" /\ t[j + 1] = "}"

\* C26: when the scan meets a "{{" that has no "}}" after it, the rest of the input,
\* from what stands before that "{{" to the end, is appended to the output unchanged,
\* the scan ends, and the output written before is kept in front of it.
C26_UnterminatedCopied ==
    [][(pc = "scan" /\ Unterminated(remaining)) =>
           (result' = result \o remaining /\ pc' = "done")]_vars

\* C26 witness: a scan that rewrote an action and then met a "{{" with no "}}" has
\* ended, with the rewritten action and the unclosed rest in its output.
C26_Witness ==
    /\ pc = "done"
    /\ last.kind = "unterminated"
    /\ NumActs(chunks) >= 1
    /\ CatOut(SubSeq(chunks, 1, Len(chunks) - 1)) # CatIn(SubSeq(chunks, 1, Len(chunks) - 1))
    /\ Contains(chunks[Len(chunks)].in, LeftDelim)
    /\ result = CatOut(SubSeq(chunks, 1, Len(chunks) - 1)) \o chunks[Len(chunks)].in

\* C27: a range action whose source holds := but does not split in two around it is
\* written unchanged as "range <src>", with no call of expr, whether the source
\* holds a $ or not, and the scope depth is raised by one.
C27_RangeFallback ==
    Stepped =>
        LET a == last.action
            src == After(a, KwRange)
        IN  (IsRange(a) /\ HasAssign(src) /\ ~TwoParts(src)) =>
                /\ last.out = KwRange \o src
                /\ contextDepth = last.depth + 1

\* on src/template.go, whose switch has the fallback branch, the statement holds
OnTpl_RangeFallback == variant = "tpl" => C27_RangeFallback

RECURSIVE CountOpens(_)
\* the number of "{{" of a text, counted from left to right without overlap
CountOpens(t) ==
    LET opens == {i \in 1..(Len(t) - 1) : t[i] = "{" /\ t[i + 1] = "{"}
        open == CHOOSE i \in opens : \A j \in opens : i <= j
    IN  IF opens = {} THEN 0 ELSE 1 + CountOpens(SubSeq(t, open + 2, Len(t)))

\* the loop iterations made so far: one for each action rewritten, and the one that
\* ended the scan
Iterations == NumActs(chunks) + (IF pc = "done" THEN 1 ELSE 0)

\* C29: the scan ends for every input text: the length of the remaining text is a
\* measure that every iteration which does not end the scan strictly lowers, a scan
\* that has ended makes no further iteration, and the scan makes at most one
\* iteration for each "{{" of the input, plus one.
C29_ScanTerminates ==
    /\ [][/\ pc = "scan"
          /\ pc' = "done" \/ Len(remaining') < Len(remaining)]_vars
    /\ [](Iterations <= CountOpens(input) + 1)

\* C29 witness: a scan has ended after as many iterations as the input has "{{",
\* plus one, three of them or more.
C29_Witness ==
    /\ pc = "done"
    /\ Iterations = CountOpens(input) + 1
    /\ Iterations >= 3

-----------------------------------------------------------------------------
(* Execute on a Data Context that is followed: what the host engine writes   *)
(* for a parsed text whose actions are bare expressions and assignments      *)

IdY == <<"y">>
TextA == <<"a">>
TextB == <<"b">>

\* the Data Contexts handed to NewTemplate: x and y bound to strings
DataContexts ==
    { Bound((IdX :> Str(TextA)) @@ (IdY :> Str(TextB))),
      Bound((IdX :> Str(TextB)) @@ (IdY :> Str(TextB))) }

\* the actions of the texts: {{x}}, {{u}}, {{$x := y}}, {{$u := x}}
DataPieces ==
    { Act(IdX), Act(IdU), Act(Dollar \o IdX \o AssignSp \o IdY),
      Act(Dollar \o IdU \o AssignSp \o IdX) }

DataTexts == CatsUpTo(DataPieces, MaxActs)

\* processed := t.preProcessExpressions(text), for these texts
dataProcessed == [v \in Variants |-> [t \in DataTexts |-> preProcessExpressions(v, t)]]

\* the environment an expression is compiled and run on: t.data itself on
\* src/template.go; on src/unnamed/part_001 the string keys of t.data with the
\* template variables written over them
createExprEnvironment(v, d, tv) ==
    IF v = "alt"
    THEN Bound(Override(IF d.bound THEN d.m ELSE <<>>, tv))
    ELSE d

\* what one run of the host engine has done so far
Run(out, tv, compiled, n, err) ==
    [out |-> out, vars |-> tv, compiled |-> compiled, n |-> n, err |-> err]

RECURSIVE hostExecute(_, _, _, _)
\* tmpl.Execute(wr, t.data) on a rewritten text with no block: literal text is
\* written as it is; an action is run from left to right. A call of expr compiles the
\* expression (unless cached) and runs it on the environment; setVar stores its
\* argument in t.templateVars; an action that declares a variable writes nothing,
\* any other one writes the value of its call. The first error ends the run.
hostExecute(v, body, d, r) ==
    LET start == Index(body, LeftDelim)
        end == Index(body, RightDelim)
        action == TrimSpace(Slice(body, start + 2, end))
        rest == Slice(body, end + 2, Len(body))
        out == r.out \o Slice(body, 0, start)
        e == exprCalls(action)[1]
        val == Evaluate(e, createExprEnvironment(v, d, r.vars))
        names == setVarNames(action)
        tv == [n \in DOMAIN r.vars \cup names |->
                  IF n \in names THEN val.out ELSE r.vars[n]]
    IN  IF start = -1 \/ end = -1 THEN [r EXCEPT !.out = @ \o body]
        ELSE IF val.err # ""
        THEN Run(out, r.vars, r.compiled, r.n + 1,
                 IF e \in r.compiled THEN "evaluating expression"
                 ELSE "compiling expression")
        ELSE hostExecute(v, rest, d,
                 Run(IF Contains(action, Assign) THEN out ELSE out \o val.out.val,
                     tv, r.compiled \cup {e}, r.n + 1, ""))

DataInit ==
    /\ variant \in Variants
    /\ data \in DataContexts
    /\ host = NoHost
    /\ envMap = <<>>
    /\ envGiven = <<>>
    /\ call = NoCall
    /\ templateIdle
    /\ scanIdle
    /\ sharedIdle

dataFrame ==
    /\ UNCHANGED <<variant, file>>
    /\ UNCHANGED scanVars
    /\ UNCHANGED <<facadeVars, sharedVars>>

\* Template.Parse of one of these texts; the host engine accepts each of them
ParseOnData ==
    /\ pc = "idle"
    /\ \E t \in DataTexts :
           /\ text' = t
           /\ tmpl' = Parsed(dataProcessed[variant][t])
    /\ lastOp' = "Parse"
    /\ lastErr' = ""
    /\ UNCHANGED <<exprCache, templateVars, sink, evals>>
    /\ dataFrame

\* Template.Execute / ExecuteToString on the Data Context of the Template: the sink
\* receives what the run wrote
ExecuteOnData ==
    /\ pc = "idle"
    /\ lastOp' = "Execute"
    /\ IF tmpl = Nil
       THEN /\ lastErr' = "template not parsed"
            /\ UNCHANGED <<exprCache, templateVars, sink, evals>>
       ELSE /\ Len(sink) < MaxExec
            /\ LET r == hostExecute(variant, tmpl.body, data,
                                    Run(<<>>, templateVars, exprCache, 0, ""))
               IN  /\ sink' = Append(sink, r.out)
                   /\ templateVars' = r.vars
                   /\ exprCache' = r.compiled
                   /\ evals' = evals + r.n
                   /\ lastErr' = r.err
    /\ UNCHANGED <<text, tmpl>>
    /\ dataFrame

DataNext == ParseOnData \/ ExecuteOnData

DataSpec == DataInit /\ [][DataNext]_vars

\* C30: two Execute calls that follow one another on the same parsed Template, with
\* the same Data Context, write the same output and return the same error: nothing
\* the first run stored is seen by the second run before it is stored again.
C30_ExecuteRepeatable ==
    [][(lastOp = "Execute" /\ lastOp' = "Execute" /\ tmpl # Nil) =>
           /\ sink'[Len(sink')] = sink[Len(sink)]
           /\ lastErr' = lastErr]_vars

\* on src/template.go, which has no template variables, the statement holds
OnTpl_ExecuteRepeatable ==
    [][variant = "tpl" =>
           ((lastOp = "Execute" /\ lastOp' = "Execute" /\ tmpl # Nil) =>
                /\ sink'[Len(sink')] = sink[Len(sink)]
                /\ lastErr' = lastErr)]_vars

====
